---- MODULE Spec2Model ----
(***************************************************************************)
(* Model of the PostMortem collection compiler: PostmanConverter           *)
(* (processCollection, _processItems, _generateTestFile), the Validator    *)
(* and the FileSystem calls the converter issues.                          *)
(*                                                                         *)
(* Text (names, paths) is a sequence of one-character strings, so that     *)
(* kebabCase, split('/') and path.join are computed, not assumed.          *)
(***************************************************************************)
EXTENDS Integers, Sequences, FiniteSets, TLC

(***************************************************************************)
(* Bounds                                                                  *)
(***************************************************************************)
\* largest number of nodes (folders and requests) of a collection tree
MaxNodes == 3
MaxEnvVars == 3
MaxStatements == 3
MaxEmitNodes == 2
MaxRetriesBound == 3

(***************************************************************************)
(* Text helpers                                                            *)
(***************************************************************************)
UpperChars == {"U", "G", "A"}
LowerChars == {"s", "e", "r", "t", "l", "u", "g", "a"}

toLower(c) ==
  CASE c = "U" -> "u"
    [] c = "G" -> "g"
    [] c = "A" -> "a"
    [] OTHER   -> c

IsAlnum(c) == c \in UpperChars \cup LowerChars

\* lodash words(): position i of s starts a new word
WordStart(s, i) ==
  /\ IsAlnum(s[i])
  /\ \/ i = 1
     \/ ~IsAlnum(s[i - 1])
     \/ s[i - 1] \in LowerChars /\ s[i] \in UpperChars
     \/ /\ s[i - 1] \in UpperChars /\ s[i] \in UpperChars
        /\ i < Len(s) /\ s[i + 1] \in LowerChars

RECURSIVE kebabFrom(_, _)
kebabFrom(s, i) ==
  IF i > Len(s) THEN <<>>
  ELSE IF ~IsAlnum(s[i]) THEN kebabFrom(s, i + 1)
  ELSE (IF WordStart(s, i) /\ (\E j \in 1..(i - 1) : IsAlnum(s[j]))
          THEN <<"-">> ELSE <<>>)
       \o <<toLower(s[i])>> \o kebabFrom(s, i + 1)

\* _.kebabCase(name): the words of name, lower-cased, joined by '-'
kebabCase(s) == kebabFrom(s, 1)

\* String.prototype.split('/'): the pieces between slashes, empty ones kept
RECURSIVE splitFrom(_, _, _)
splitFrom(s, i, cur) ==
  IF i > Len(s) THEN <<cur>>
  ELSE IF s[i] = "/" THEN <<cur>> \o splitFrom(s, i + 1, <<>>)
  ELSE splitFrom(s, i + 1, Append(cur, s[i]))

split(s) == splitFrom(s, 1, <<>>)

\* path.join(base, rel...): normalised, so empty segments disappear.
\* A directory or file path is the sequence of its segments.
pathJoin(base, rel) ==
  base \o SelectSeq(split(rel), LAMBDA seg : seg # <<>>)

\* path.dirname of a normalised path
dirname(p) == SubSeq(p, 1, Len(p) - 1)

IsPrefix(a, b) == Len(a) <= Len(b) /\ SubSeq(b, 1, Len(a)) = a

(***************************************************************************)
(* Inputs: collection documents, environments, options                     *)
(***************************************************************************)
NameUsers  == <<"U", "s", "e", "r", "s">>
NameSymbol == <<"!", "!", "!">>
NameGetAll == <<"G", "e", "t", " ", "A", "l", "l">>
NameGet    == <<"G", "e", "t">>

GroupNames   == {NameUsers, NameSymbol}
RequestNames == {NameGetAll, NameGet}

(***************************************************************************)
(* URLs: a URL string is the sequence of its pieces, with every '/', '?'   *)
(* and '#' a piece of its own                                              *)
(***************************************************************************)
UrlA        == <<"https:", "/", "/", "a.test", "/", "users">>
UrlB        == <<"http:", "/", "/", "b.test", "/", "items", "?", "q=1">>
UrlTemplate == <<"{{baseUrl}}", "/", "users", "/", "1">>
UrlBare     == <<"{{baseUrl}}">>
UrlNone     == <<>>

\* new URL(text) does not throw: scheme, '//', a valid host
UrlParses(u) ==
  /\ Len(u) >= 4
  /\ u[1] \in {"https:", "http:"} /\ u[2] = "/" /\ u[3] = "/"
  /\ u[4] \in {"a.test", "b.test", "api.example.com"}

\* the pieces of u from position i up to the first '?' or '#'
RECURSIVE UpToQuery(_, _)
UpToQuery(u, i) ==
  IF i > Len(u) \/ u[i] \in {"?", "#"} THEN <<>>
  ELSE <<u[i]>> \o UpToQuery(u, i + 1)

\* `${urlObj.protocol}//${urlObj.host}`
UrlOrigin(u) == SubSeq(u, 1, 4)

\* new URL(text).pathname || '/'
UrlPathname(u) ==
  IF UpToQuery(u, 5) = <<>> THEN <<"/">> ELSE UpToQuery(u, 5)

\* a request node: name, request.url, request.header, test script lines
RichRequest(n, url, header, script) ==
  [type |-> "request", name |-> n, items |-> <<>>,
   url |-> url, header |-> header, script |-> script]

Request(n)    == RichRequest(n, UrlA, <<>>, <<>>)
Group(n, ch)  == [type |-> "group", name |-> n, items |-> ch,
                  url |-> <<>>, header |-> <<>>, script |-> <<>>]

RECURSIVE ForestsOfSize(_)
RECURSIVE NodesOfSize(_)
NodesOfSize(k) ==
  (IF k = 1 THEN {Request(n) : n \in RequestNames} ELSE {})
  \cup {Group(n, ch) : n \in GroupNames, ch \in ForestsOfSize(k - 1)}

ForestsOfSize(n) ==
  IF n = 0 THEN {<<>>}
  ELSE UNION {{<<nd>> \o rest : nd \in NodesOfSize(k),
                                rest \in ForestsOfSize(n - k)} : k \in 1..n}

Forests == UNION {ForestsOfSize(n) : n \in 0..MaxNodes}

\* the same trees over a given set of request nodes and of folder names
RECURSIVE ForestsOver(_, _, _)
RECURSIVE NodesOver(_, _, _)
NodesOver(reqs, gnames, k) ==
  (IF k = 1 THEN reqs ELSE {})
  \cup {Group(n, ch) : n \in gnames, ch \in ForestsOver(reqs, gnames, k - 1)}

ForestsOver(reqs, gnames, n) ==
  IF n = 0 THEN {<<>>}
  ELSE UNION {{<<nd>> \o rest : nd \in NodesOver(reqs, gnames, k),
                                rest \in ForestsOver(reqs, gnames, n - k)}
              : k \in 1..n}

\* trees whose requests differ in their URL
UrlForests ==
  UNION {ForestsOver({RichRequest(NameGet, u, <<>>, <<>>)
                        : u \in {UrlA, UrlB, UrlTemplate, UrlNone}},
                     {NameUsers}, n) : n \in 0..MaxNodes}

\* sdk type guards over the tagged nodes
isItemGroup(item)   == item.type = "group"
isRequestItem(item) == item.type = "request"
membersReversed(items) ==
  [k \in 1..Len(items) |-> items[Len(items) + 1 - k]]

extractMembers(items) == items

(***************************************************************************)
(* Validator                                                               *)
(***************************************************************************)
\* the info object of a collection document, with or without name and schema
Info(present, hasName, hasSchema) ==
  [present |-> present, hasName |-> hasName, hasSchema |-> hasSchema]

InfoNone == Info(FALSE, FALSE, FALSE)
InfoFull == Info(TRUE, TRUE, TRUE)

\* a raw collection document: absent, or an object whose info and item
\* fields may be missing
CollectionDoc(present, info, hasItems, item) ==
  [present |-> present, info |-> info, hasItems |-> hasItems, item |-> item]

\* a raw environment document: absent, or an object with or without values
EnvironmentDoc(present, named, hasValues, values) ==
  [present |-> present, named |-> named, hasValues |-> hasValues,
   values |-> values]

NoErrors(c) == <<>>

\* Validator.validateCollection: the error list
validateCollectionErrors(c) ==
  IF ~c.present THEN <<"Collection is required">>
  ELSE (IF ~c.info.present
          THEN <<"Collection must have an info object">> ELSE <<>>)
       \o (IF ~c.hasItems
             THEN <<"Collection must have an items array">> ELSE <<>>)

\* Validator.validateCollection: the warning list
validateCollectionWarnings(c) ==
  IF ~c.present THEN <<>>
  ELSE (IF c.info.present /\ ~c.info.hasName
          THEN <<"Collection name is missing">> ELSE <<>>)
       \o (IF c.info.present /\ ~c.info.hasSchema
             THEN <<"Collection schema is missing">> ELSE <<>>)
       \o (IF c.hasItems /\ Len(c.item) = 0
             THEN <<"Collection has no items">> ELSE <<>>)

validateCollectionFirstErrorOnly(c) ==
  [isValid  |-> Len(validateCollectionErrors(c)) = 0,
   errors   |-> SubSeq(validateCollectionErrors(c), 1, 1),
   warnings |-> validateCollectionWarnings(c)]

validateCollection(c) ==
  [isValid  |-> Len(validateCollectionErrors(c)) = 0,
   errors   |-> validateCollectionErrors(c),
   warnings |-> validateCollectionWarnings(c)]

\* Validator.validateEnvironment: the error list
validateEnvironmentErrors(e) ==
  IF ~e.present THEN <<>>
  ELSE IF ~e.hasValues THEN <<"Environment must have a values array">>
  ELSE <<>>

\* Validator.validateEnvironment: the warning list (one per keyless variable)
validateEnvironmentWarnings(e) ==
  IF ~e.present THEN <<>>
  ELSE (IF ~e.named THEN <<"Environment name is missing">> ELSE <<>>)
       \o (IF e.hasValues /\ Len(e.values) = 0
             THEN <<"Environment has no variables">> ELSE <<>>)
       \o (IF e.hasValues
             THEN [k \in 1..Cardinality({i \in 1..Len(e.values) :
                                           e.values[i].key = ""}) |->
                     "Environment variable is missing a key"]
             ELSE <<>>)

validateEnvironment(e) ==
  [isValid  |-> Len(validateEnvironmentErrors(e)) = 0,
   errors   |-> validateEnvironmentErrors(e),
   warnings |-> validateEnvironmentWarnings(e)]

(***************************************************************************)
(* Input sets                                                              *)
(***************************************************************************)
InvalidCollections ==
  { CollectionDoc(FALSE, InfoNone, FALSE, <<>>),
    CollectionDoc(TRUE, InfoNone, TRUE, <<>>),
    CollectionDoc(TRUE, InfoFull, FALSE, <<>>),
    CollectionDoc(TRUE, InfoNone, FALSE, <<>>) }

ValidCollections ==
  { CollectionDoc(TRUE, InfoFull, TRUE, f) : f \in Forests }
  \cup { CollectionDoc(TRUE, Info(TRUE, FALSE, FALSE), TRUE, <<>>) }

Collections == InvalidCollections \cup ValidCollections

EnvVar(k, v) == [key |-> k, value |-> v]

Environments ==
  { EnvironmentDoc(FALSE, FALSE, FALSE, <<>>),
    EnvironmentDoc(TRUE, TRUE, FALSE, <<>>),
    EnvironmentDoc(TRUE, FALSE, TRUE,
                   <<EnvVar("k", "v"), EnvVar("", "w"), EnvVar("k", "w")>>) }

\* PostmanConverterOptions (outputDir is fixed)
Options ==
  [createSetupFile : BOOLEAN, maintainFolderStructure : BOOLEAN,
   generateFullProject : BOOLEAN]

(***************************************************************************)
(* Paths the converter and the project generator use                       *)
(***************************************************************************)
OutputDir == << <<"o", "u", "t">> >>

SegSrc     == <<"s", "r", "c">>
SegTests   == <<"t", "e", "s", "t", "s">>
SegHelpers == <<"h", "e", "l", "p", "e", "r", "s">>
SegSetupTs == <<"s", "e", "t", "u", "p", ".", "t", "s">>
TestExt    == <<".", "t", "e", "s", "t", ".", "t", "s">>

\* path.join(outputDir, 'setup.ts')
PlainSetupPath == OutputDir \o <<SegSetupTs>>
\* path.join(outputDir, 'src/setup.ts')
EnhancedSetupPath == OutputDir \o <<SegSrc, SegSetupTs>>
\* path.join(outputDir, 'src', 'tests')
TestsDir == OutputDir \o <<SegSrc, SegTests>>

(***************************************************************************)
(* FileSystem calls                                                        *)
(***************************************************************************)
\* one call of FileSystem.ensureDir or FileSystem.writeFile.
\*   kind: "root" | "project" | "folder" | "setup" | "test"
FsOp(op, p, kind) == [op |-> op, path |-> p, kind |-> kind]

NoContent == [pos |-> <<>>, ups |-> 0, parentName |-> <<>>, enhanced |-> FALSE,
              code |-> [suite |-> <<>>, path |-> <<>>, sets |-> <<>>,
                        assertions |-> <<>>]]

\* the record of a call in the run's trace: the call, the content written
\* (test files only), and whether it succeeded
LogEntry(call, content, ok) ==
  [op |-> call.op, path |-> call.path, kind |-> call.kind,
   content |-> content, ok |-> ok]

RECURSIVE Ancestors(_)
Ancestors(p) == IF Len(p) = 0 THEN {} ELSE {p} \cup Ancestors(dirname(p))

\* fs.ensureDir(dir): the directory and its missing parents exist afterwards
DirsAfter(dirs0, call) ==
  IF call.op = "ensureDir" THEN dirs0 \cup Ancestors(call.path)
  ELSE dirs0 \cup Ancestors(dirname(call.path))

FilesAfterKeepFirst(files0, call, content) ==
  IF call.op = "writeFile"
    THEN [p \in (DOMAIN files0) \cup {call.path} |->
            IF p \in DOMAIN files0 THEN files0[p] ELSE content]
    ELSE files0

\* fs.writeFile(path, content): creates or overwrites
FilesAfter(files0, call, content) ==
  IF call.op = "writeFile"
    THEN [p \in (DOMAIN files0) \cup {call.path} |->
            IF p = call.path THEN content ELSE files0[p]]
    ELSE files0

NoError == [kind |-> "none", path |-> <<>>, errors |-> <<>>]

\* FileSystem.writeFile / ensureDir wrap the failure in an Error whose
\* message names the path
FsError(call) == [kind |-> call.op, path |-> call.path, errors |-> <<>>]

(***************************************************************************)
(* ProjectGenerator.generateProject: its FileSystem calls, in order        *)
(***************************************************************************)
ProjectOps ==
  << 
     FsOp("ensureDir", OutputDir \o <<<<"s", "r", "c">>>>, "project"),
     FsOp("ensureDir", OutputDir \o <<<<"s", "r", "c">>, <<"t", "e", "s", "t", "s">>>>, "project"),
     FsOp("ensureDir", OutputDir \o <<<<"s", "r", "c">>, <<"h", "e", "l", "p", "e", "r", "s">>>>, "project"),
     FsOp("ensureDir", OutputDir \o <<<<"s", "r", "c">>, <<"u", "t", "i", "l", "s">>>>, "project"),
     FsOp("ensureDir", OutputDir \o <<<<"s", "r", "c">>, <<"c", "o", "n", "f", "i", "g">>>>, "project"),
     FsOp("ensureDir", OutputDir \o <<<<"r", "e", "p", "o", "r", "t", "s">>>>, "project"),
     FsOp("writeFile", OutputDir \o <<<<"p", "a", "c", "k", "a", "g", "e", ".", "j", "s", "o", "n">>>>, "project"),
     FsOp("writeFile", OutputDir \o <<<<"t", "s", "c", "o", "n", "f", "i", "g", ".", "j", "s", "o", "n">>>>, "project"),
     FsOp("writeFile", OutputDir \o <<<<".", "m", "o", "c", "h", "a", "r", "c", ".", "j", "s", "o", "n">>>>, "project"),
     FsOp("writeFile", OutputDir \o <<<<".", "e", "n", "v", ".", "e", "x", "a", "m", "p", "l", "e">>>>, "project"),
     FsOp("writeFile", OutputDir \o <<<<".", "e", "n", "v">>>>, "project"),
     FsOp("writeFile", OutputDir \o <<<<"R", "E", "A", "D", "M", "E", ".", "m", "d">>>>, "project"),
     FsOp("writeFile", OutputDir \o <<<<".", "g", "i", "t", "i", "g", "n", "o", "r", "e">>>>, "project"),
     FsOp("writeFile", OutputDir \o <<<<"s", "r", "c">>, <<"h", "e", "l", "p", "e", "r", "s">>, <<"a", "p", "i", "-", "c", "l", "i", "e", "n", "t", ".", "t", "s">>>>, "project"),
     FsOp("writeFile", OutputDir \o <<<<"s", "r", "c">>, <<"h", "e", "l", "p", "e", "r", "s">>, <<"t", "e", "s", "t", "-", "h", "e", "l", "p", "e", "r", "s", ".", "t", "s">>>>, "project"),
     FsOp("writeFile", OutputDir \o <<<<"s", "r", "c">>, <<"s", "e", "t", "u", "p", ".", "t", "s">>>>, "setup")
  >>

(***************************************************************************)
(* State                                                                   *)
(***************************************************************************)
VARIABLES
  rawCollection,   \* the collection document handed to processCollection
  rawEnvironment,  \* the environment document (absent or present)
  options,         \* this.options of the converter
  pc,              \* where processCollection is
  stack,           \* the active _processItems calls, innermost last
  fsLog,           \* every FileSystem call issued so far, in order
  dirs,            \* directories that exist
  files,           \* path -> content of the files on disk
  result,          \* the value processCollection returned
  error,           \* the error processCollection raised
  fnCall,          \* a direct call of one of the pure functions: name, argument
  fnRet,           \* the value that call returned
  proc             \* the caller around it: CLI run, retry loop, editor workflow

vars == <<rawCollection, rawEnvironment, options, pc, stack, fsLog, dirs,
          files, result, error, fnCall, fnRet, proc>>

\* what no step of processCollection changes
inputs == <<rawCollection, rawEnvironment, options, fnCall, fnRet, proc>>

NoProc == [kind |-> "none"]
NoCall == [fn |-> "none", arg |-> <<>>]
NoRet  == [done |-> FALSE, value |-> <<>>]

NoResult == [returned |-> FALSE, testFiles |-> 0, folders |-> 0,
             baseUrl |-> <<>>, environment |-> [isNull |-> TRUE,
                                                map |-> [k \in {} |-> ""]]]

\* one activation of _processItems(itemGroup, outputDir, parentPath, level):
\* the items, the loop index, the accumulators, and the tree position of
\* itemGroup
Frame(items, parentPath, pos) ==
  [items |-> items, i |-> 1, parentPath |-> parentPath,
   testFiles |-> 0, folders |-> 0, pos |-> pos]

Top == stack[Len(stack)]
CurrentItem == Top.items[Top.i]
AtItem == pc = "walk" /\ Len(stack) > 0 /\ Top.i <= Len(Top.items)
AtEnd  == pc = "walk" /\ Len(stack) > 0 /\ Top.i > Len(Top.items)

\* the outputDir argument processCollection passes to _processItems
WalkRoot(opts) == IF opts.generateFullProject THEN TestsDir ELSE OutputDir

Init ==
  /\ rawCollection \in Collections
  /\ rawEnvironment \in Environments
  /\ options \in Options
  /\ pc = "start"
  /\ stack = <<>>
  /\ fsLog = <<>>
  /\ dirs = {}
  /\ files = [p \in {} |-> NoContent]
  /\ result = NoResult
  /\ error = NoError
  /\ fnCall = NoCall
  /\ fnRet = NoRet
  /\ proc = NoProc

(***************************************************************************)
(* Decisions of processCollection / _processItems / _generateTestFile      *)
(***************************************************************************)
SwallowFailure(ok, next) == next

\* a FileSystem call that throws ends the run: nothing catches the error
\* (_generateTestFile logs and rethrows)
AfterCall(ok, next) == IF ok THEN next ELSE "failed"

NeverSetup(opts) ==
  IF opts.generateFullProject THEN "project" ELSE "walk"

\* what follows ensureDir(outputDir): the full project, the setup file, or
\* directly the walk
AfterRoot(opts) ==
  IF opts.generateFullProject THEN "project"
  ELSE IF opts.createSetupFile THEN "setup"
  ELSE "walk"

AlwaysHasSubItems(item) == TRUE

\* subItems.length > 0
HasSubItems(item) == Len(extractMembers(item.items)) > 0

NeverEnsureFolderDir(opts) == FALSE

\* if (this.options.maintainFolderStructure) ensureDir(folderDir)
ShouldEnsureFolderDir(opts) == opts.maintainFolderStructure

\* parentPath ? `${parentPath}/${folderName}` : folderName
FolderPath(parentPath, folderName) ==
  IF parentPath # <<>> THEN parentPath \o <<"/">> \o folderName
  ELSE folderName

AlwaysFolderPath(opts, folderPath, parentPath) == folderPath

\* the parentPath handed to the recursive call
ChildParentPath(opts, folderPath, parentPath) ==
  IF opts.maintainFolderStructure THEN folderPath ELSE parentPath

FoldersWithoutSelf(folders, sub) == folders + sub

\* folders += results.folders + 1
FoldersAfter(folders, sub) == folders + sub + 1

TestFilesUncounted(n) == n

\* testFiles++
TestFilesAfter(n) == n + 1

\* `${_.kebabCase(item.name)}.test.ts`
FileName(item) == kebabCase(item.name) \o TestExt

\* filePath of _generateTestFile
FilePath(outputDir, parentPath, item) ==
  IF parentPath # <<>>
    THEN pathJoin(pathJoin(outputDir, parentPath), FileName(item))
    ELSE pathJoin(outputDir, FileName(item))

\* the number of '../' in setupPath ('./setup' is 0)
SetupLevels(opts, parentPath) ==
  IF opts.generateFullProject
    THEN (IF parentPath # <<>> THEN Len(split(parentPath)) + 1 ELSE 1)
    ELSE (IF parentPath # <<>> THEN Len(split(parentPath)) ELSE 0)

\* parentPath ? parentPath.split('/').pop() : ''
ParentName(parentPath) ==
  IF parentPath # <<>> THEN split(parentPath)[Len(split(parentPath))]
  ELSE <<>>

(***************************************************************************)
(* Environment extraction; a key or value that is missing or empty is ""   *)
(***************************************************************************)
EmptyMap == [k \in {} |-> ""]

EnvPutKeepFirst(acc, k, v) ==
  IF k \in DOMAIN acc THEN acc
  ELSE [x \in DOMAIN acc \cup {k} |-> IF x = k THEN v ELSE acc[x]]

\* acc[variable.key] = variable.value
EnvPut(acc, k, v) ==
  [x \in DOMAIN acc \cup {k} |-> IF x = k THEN v ELSE acc[x]]

\* members.reduce(...), from member i on
RECURSIVE reduceEnv(_, _, _)
reduceEnv(acc, members, i) ==
  IF i > Len(members) THEN acc
  ELSE reduceEnv(IF members[i].key # "" /\ members[i].value # ""
                   THEN EnvPut(acc, members[i].key, members[i].value)
                   ELSE acc,
                 members, i + 1)

extractEnvironmentVariables(values) == reduceEnv(EmptyMap, values, 1)

\* environment ? extractEnvironmentVariables(environment) : null
environmentVars(e) ==
  IF e.present
    THEN [isNull |-> FALSE, map |-> extractEnvironmentVariables(e.values)]
    ELSE [isNull |-> TRUE, map |-> EmptyMap]

(***************************************************************************)
(* Base-URL extraction                                                     *)
(***************************************************************************)
DefaultBaseUrl == <<"https:", "/", "/", "api.example.com">>

FirstRequestBaseUrl(item) ==
  IF UrlParses(item.url) THEN UrlOrigin(item.url) ELSE DefaultBaseUrl

\* the try/catch of findFirstUrl for one request: the base URL, or nothing
\* (<<>>) when new URL throws
RequestBaseUrl(item) ==
  IF UrlParses(item.url) THEN UrlOrigin(item.url) ELSE <<>>

\* findFirstUrl, the loop from item k on; <<>> stands for null
RECURSIVE findFirstUrlFrom(_, _)
findFirstUrlFrom(items, k) ==
  IF k > Len(items) THEN <<>>
  ELSE LET item == items[k]
           own == IF isRequestItem(item) THEN RequestBaseUrl(item) ELSE <<>>
           sub == IF isItemGroup(item)
                    THEN findFirstUrlFrom(extractMembers(item.items), 1)
                    ELSE <<>>
       IN  IF own # <<>> THEN own
           ELSE IF sub # <<>> THEN sub
           ELSE findFirstUrlFrom(items, k + 1)

\* PostmanConverter._extractBaseUrl
extractBaseUrl(items) ==
  IF Len(extractMembers(items)) = 0 THEN DefaultBaseUrl
  ELSE IF findFirstUrlFrom(items, 1) # <<>> THEN findFirstUrlFrom(items, 1)
  ELSE DefaultBaseUrl

(***************************************************************************)
(* TestConverter.convertPostmanTestToMocha.  A script is the sequence of   *)
(* its pieces; whitespace, quotes, parentheses and every word a pattern    *)
(* names are pieces of their own, so a pattern matches a run of pieces.    *)
(***************************************************************************)
WsToks    == {" ", "\n"}
QuoteToks == {"\"", "'"}
DigitToks == {"200", "201"}

\* \s* from position i: the position of the first piece that is not blank
RECURSIVE SkipWs(_, _)
SkipWs(s, i) ==
  IF i <= Len(s) /\ s[i] \in WsToks THEN SkipWs(s, i + 1) ELSE i

\* [^"']+ from position i: the position after the longest run without quote
RECURSIVE NonQuoteEnd(_, _)
NonQuoteEnd(s, i) ==
  IF i <= Len(s) /\ s[i] \notin QuoteToks THEN NonQuoteEnd(s, i + 1) ELSE i

\* \d+ from position i
RECURSIVE DigitsEnd(_, _)
DigitsEnd(s, i) ==
  IF i <= Len(s) /\ s[i] \in DigitToks THEN DigitsEnd(s, i + 1) ELSE i

At(s, i, t) == i <= Len(s) /\ s[i] = t

\* \s*\(\s*["']([^"']+)["'] from position i: <<start, end>> of the captured
\* name with end the closing quote, or <<0, 0>>
QuotedArg(s, i) ==
  LET a == SkipWs(s, i)
      b == SkipWs(s, a + 1)
      c == NonQuoteEnd(s, b + 1)
  IN  IF /\ At(s, a, "(")
         /\ b <= Len(s) /\ s[b] \in QuoteToks
         /\ c > b + 1
         /\ c <= Len(s) /\ s[c] \in QuoteToks
        THEN <<b + 1, c>> ELSE <<0, 0>>

\* \s*\(\s*(\d+)\s*\) from position i: <<start, end>> of the digits with end
\* the closing parenthesis, or <<0, 0>>
DigitsArg(s, i) ==
  LET a == SkipWs(s, i)
      b == SkipWs(s, a + 1)
      c == DigitsEnd(s, b)
      d == SkipWs(s, c)
  IN  IF At(s, a, "(") /\ c > b /\ At(s, d, ")")
        THEN <<b, c - 1, d>> ELSE <<0, 0, 0>>

\* \s*\(\s*word\s*\) from position i: the position of the closing
\* parenthesis, or 0
WordArg(s, i, word) ==
  LET a == SkipWs(s, i)
      b == SkipWs(s, a + 1)
      c == SkipWs(s, b + 1)
  IN  IF At(s, a, "(") /\ At(s, b, word) /\ At(s, c, ")") THEN c ELSE 0

StatusEqual(digits) ==
  <<"expect", "(", "response.status", ")", ".to.equal", "(">> \o digits
  \o <<")">>

\* conversions[r] tried at position i: the position after the match and the
\* replacement, or next = 0 when the pattern does not match there
TryRule(r, s, i) ==
  LET none == [next |-> 0, out |-> <<>>]
  IN
  CASE r = 1 ->
         LET q == QuotedArg(s, i + 1)
         IN  IF At(s, i, "pm.test") /\ q[1] > 0
               THEN [next |-> q[2] + 1,
                     out |-> <<"it", "(", "\"">>
                             \o SubSeq(s, q[1], q[2] - 1) \o <<"\"">>]
               ELSE none
    [] r = 2 ->
         LET c == WordArg(s, i + 1, "pm.response.code")
             d == DigitsArg(s, c + 2)
         IN  IF /\ At(s, i, "pm.expect") /\ c > 0
                /\ At(s, c + 1, ".to.equal") /\ d[1] > 0
               THEN [next |-> d[3] + 1,
                     out |-> StatusEqual(SubSeq(s, d[1], d[2]))]
               ELSE none
    [] r = 3 ->
         LET d == DigitsArg(s, i + 1)
         IN  IF At(s, i, "pm.response.to.have.status") /\ d[1] > 0
               THEN [next |-> d[3] + 1,
                     out |-> StatusEqual(SubSeq(s, d[1], d[2]))]
               ELSE none
    [] r = 4 ->
         IF At(s, i, "pm.response.json()")
           THEN [next |-> i + 1, out |-> <<"response.body">>] ELSE none
    [] r = 5 ->
         LET c == WordArg(s, i + 1, "responseData")
         IN  IF At(s, i, "pm.expect") /\ c > 0
               THEN [next |-> c + 1,
                     out |-> <<"expect", "(", "response.body", ")">>]
               ELSE none
    [] r = 6 ->
         LET q == QuotedArg(s, i + 1)
             e == SkipWs(s, q[2] + 1)
         IN  IF /\ At(s, i, "pm.response.headers.get") /\ q[1] > 0
                /\ At(s, e, ")")
               THEN [next |-> e + 1,
                     out |-> <<"response.headers", "[", "\"">>
                             \o SubSeq(s, q[1], q[2] - 1)
                             \o <<"\"", ".toLowerCase()", "]">>]
               ELSE none
    [] r = 7 ->
         IF At(s, i, "pm.expect")
           THEN [next |-> i + 1, out |-> <<"expect">>] ELSE none
    [] r = 8 ->
         IF At(s, i, "pm.response.responseTime")
           THEN [next |-> i + 1,
                 out |-> <<"/* Response time not directly supported in Supertest */">>]
           ELSE none
    [] r = 9 ->
         LET a == SkipWs(s, i + 1)
             b == SkipWs(s, a + 1)
             c == SkipWs(s, b + 1)
         IN  IF /\ At(s, i, "const") /\ a > i + 1 /\ At(s, a, "responseData")
                /\ At(s, b, "=") /\ At(s, c, "pm.response.json()")
                /\ At(s, c + 1, ";")
               THEN [next |-> c + 2,
                     out |-> <<"const", " ", "responseData", " ", "=", " ",
                               "response.body", ";">>]
               ELSE none

\* result.replace(pattern, replacement) with a /g pattern, from position i
RECURSIVE ReplaceAll(_, _, _)
ReplaceAll(r, s, i) ==
  IF i > Len(s) THEN <<>>
  ELSE IF TryRule(r, s, i).next > 0
         THEN TryRule(r, s, i).out \o ReplaceAll(r, s, TryRule(r, s, i).next)
         ELSE <<s[i]>> \o ReplaceAll(r, s, i + 1)

\* the order of the conversions array
Conversions == <<1, 2, 3, 4, 5, 6, 7, 8, 9>>

\* conversions.forEach(...), from entry k on
RECURSIVE ApplyConversions(_, _)
ApplyConversions(s, k) ==
  IF k > Len(Conversions) THEN s
  ELSE ApplyConversions(ReplaceAll(Conversions[k], s, 1), k + 1)

convertPostmanTestToMocha(postmanScript) ==
  IF postmanScript = <<>> THEN <<>>
  ELSE ApplyConversions(postmanScript, 1)

(***************************************************************************)
(* TestGenerator.generateMochaTestFromRequest.  Names are sequences of     *)
(* characters; a request's url is the text item.request.url.toString()     *)
(* yields, its script the exec lines of its first test event.              *)
(***************************************************************************)
EscapeChar(c) ==
  CASE c = "\\" -> <<"\\", "\\">>
    [] c = "'"  -> <<"\\", "'">>
    [] c = "\"" -> <<"\\", "\"">>
    [] c = "\n" -> <<"\\", "n">>
    [] c = "\r" -> <<"\\", "r">>
    [] c = "\t" -> <<"\\", "t">>
    [] c = "$"  -> <<"\\", "$">>
    [] OTHER    -> <<c>>   \* (the backquote case has no TLA+ string)

RECURSIVE escapeForJs(_)
escapeForJs(str) ==
  IF Len(str) = 0 THEN <<>>
  ELSE EscapeChar(Head(str)) \o escapeForJs(Tail(str))

\* String.prototype.trim
RECURSIVE trim(_)
trim(str) ==
  IF Len(str) = 0 THEN <<>>
  ELSE IF Head(str) \in {" ", "\n", "\r", "\t"} THEN trim(Tail(str))
  ELSE IF str[Len(str)] \in {" ", "\n", "\r", "\t"}
         THEN trim(SubSeq(str, 1, Len(str) - 1))
  ELSE str

sanitizeTestName(name) == escapeForJs(trim(name))
sanitizePath(pathname) == escapeForJs(pathname)

\* parentName ? `${parentName} - ${item.name}` : item.name
RawTestName(parentName, name) ==
  IF parentName # <<>> THEN parentName \o <<" ", "-", " ">> \o name ELSE name

\* request.url as the generator receives it: a string, or an object
UrlArg(isString, text) == [isString |-> isString, text |-> text]

\* requestUrl.match(/\/[^?#]*/): from the first '/' to the first '?' or '#'
RECURSIVE PathMatch(_, _)
PathMatch(u, i) ==
  IF i > Len(u) THEN <<>>
  ELSE IF u[i] = "/" THEN UpToQuery(u, i)
  ELSE PathMatch(u, i + 1)

\* TestGenerator._extractUrl: the pathname
extractUrl(requestUrl) ==
  IF requestUrl.isString /\ requestUrl.text = <<>> THEN <<"/">>
  ELSE IF UrlParses(requestUrl.text) THEN UrlPathname(requestUrl.text)
  ELSE IF requestUrl.isString /\ PathMatch(requestUrl.text, 1) # <<>>
         THEN PathMatch(requestUrl.text, 1)
  ELSE <<"/">>

Header(k, v, disabled) == [key |-> k, value |-> v, disabled |-> disabled]

\* acc[key] = value on an object whose entries keep their insertion order
HeaderPut(acc, k, v) ==
  IF \E i \in 1..Len(acc) : acc[i].key = k
    THEN [i \in 1..Len(acc) |->
            IF acc[i].key = k THEN [key |-> k, value |-> v] ELSE acc[i]]
    ELSE Append(acc, [key |-> k, value |-> v])

\* TestGenerator._extractHeaders: requestHeaders.reduce, from header i on
RECURSIVE reduceHeaders(_, _, _)
reduceHeaders(acc, headers, i) ==
  IF i > Len(headers) THEN acc
  ELSE reduceHeaders(
         IF /\ headers[i].key # <<>> /\ headers[i].value # <<>>
            /\ ~headers[i].disabled
           THEN HeaderPut(acc, escapeForJs(headers[i].key),
                          escapeForJs(headers[i].value))
           ELSE acc,
         headers, i + 1)

extractHeaders(requestHeaders) == reduceHeaders(<<>>, requestHeaders, 1)

\* TestGenerator._extractTestScript: exec.join('\n')
RECURSIVE JoinLines(_)
JoinLines(exec) ==
  IF Len(exec) = 0 THEN <<>>
  ELSE IF Len(exec) = 1 THEN exec[1]
  ELSE exec[1] \o <<"\n">> \o JoinLines(Tail(exec))

legacyDefaultAssertion ==
  <<"expect", "(", "response.status", ")", ".to.be.oneOf", "(",
    "[200, 201, 204]", ")", ";">>

defaultAssertion ==
  <<"expect", "(", "response.status", ")", ".to.equal", "(", "200", ")", ";">>

CustomAssertionsComment == <<"// Add custom assertions here">>

generateMochaTestRawWhenEnhanced(item, parentName, enhanced) ==
  LET mochaAssertions ==
        IF enhanced THEN JoinLines(item.script)
        ELSE convertPostmanTestToMocha(JoinLines(item.script))
  IN  [suite |-> sanitizeTestName(RawTestName(parentName, item.name)),
       path  |-> sanitizePath(extractUrl(item.url)),
       sets  |-> IF enhanced THEN <<>> ELSE extractHeaders(item.header),
       assertions |->
         IF mochaAssertions # <<>> THEN mochaAssertions
         ELSE IF enhanced THEN CustomAssertionsComment
         ELSE defaultAssertion]

\* the parts of the generated code: the describe name, the path argument
\* of the request call, the .set calls and the assertion body
generateMochaTestFromRequest(item, parentName, enhanced) ==
  LET mochaAssertions ==
        convertPostmanTestToMocha(JoinLines(item.script))
  IN  [suite |-> sanitizeTestName(RawTestName(parentName, item.name)),
       path  |-> sanitizePath(extractUrl(item.url)),
       sets  |-> IF enhanced THEN <<>> ELSE extractHeaders(item.header),
       assertions |->
         IF mochaAssertions # <<>> THEN mochaAssertions
         ELSE IF enhanced THEN CustomAssertionsComment
         ELSE defaultAssertion]

\* the PostmanItem _generateTestFile builds from the sdk.Item
PostmanItemOf(item) ==
  [name |-> item.name, url |-> UrlArg(FALSE, item.url),
   header |-> item.header, script |-> item.script]

\* what _generateTestFile writes for the request item at tree position pos
TestContent(opts, parentPath, pos, item) ==
  [pos |-> pos, ups |-> SetupLevels(opts, parentPath),
   parentName |-> ParentName(parentPath),
   enhanced |-> opts.generateFullProject,
   code |-> generateMochaTestFromRequest(PostmanItemOf(item),
                                         ParentName(parentPath),
                                         opts.generateFullProject)]

(***************************************************************************)
(* Actions                                                                 *)
(***************************************************************************)
\* issue one FileSystem call with outcome ok and go to next (or fail)
Issue(call, content, ok, next) ==
  /\ fsLog' = Append(fsLog, LogEntry(call, content, ok))
  /\ dirs' = IF ok THEN DirsAfter(dirs, call) ELSE dirs
  /\ files' = IF ok THEN FilesAfter(files, call, content) ELSE files
  /\ error' = IF ok THEN error ELSE FsError(call)
  /\ pc' = AfterCall(ok, next)

\* entering _processItems(collection, outputDir) from processCollection
EnterWalk(next) ==
  stack' = IF next = "walk"
             THEN <<Frame(extractMembers(rawCollection.item), <<>>, <<>>)>>
             ELSE stack

\* processCollection up to the SDK conversion: the log line that reads
\* rawCollection.info, then the two validations
Validate ==
  /\ pc = "start"
  /\ IF ~rawCollection.present
       THEN /\ pc' = "failed"
            /\ error' = [kind |-> "TypeError", path |-> <<>>,
                         errors |-> <<>>]
       ELSE IF ~validateCollection(rawCollection).isValid
       THEN /\ pc' = "failed"
            /\ error' = [kind |-> "Invalid collection", path |-> <<>>,
                         errors |-> validateCollection(rawCollection).errors]
       ELSE IF rawEnvironment.present
               /\ ~validateEnvironment(rawEnvironment).isValid
       THEN /\ pc' = "failed"
            /\ error' = [kind |-> "Invalid environment", path |-> <<>>,
                         errors |-> validateEnvironment(rawEnvironment).errors]
       ELSE /\ pc' = "ensureRoot"
            /\ error' = error
  /\ UNCHANGED <<inputs, stack, fsLog, dirs, files, result>>

\* await FileSystem.ensureDir(outputDir)
EnsureOutputDir ==
  /\ pc = "ensureRoot"
  /\ \E ok \in BOOLEAN :
       /\ Issue(FsOp("ensureDir", OutputDir, "root"), NoContent, ok,
                AfterRoot(options))
       /\ EnterWalk(AfterCall(ok, AfterRoot(options)))
  /\ UNCHANGED <<inputs, result>>

\* await ProjectGenerator.generateProject(...): its calls in order, up to
\* and including the first one that fails (failAt = 0: none fails)
GenerateProject ==
  /\ pc = "project"
  /\ \E failAt \in 0..Len(ProjectOps) :
       LET n == IF failAt = 0 THEN Len(ProjectOps) ELSE failAt
           done == [k \in 1..n |->
                      LogEntry(ProjectOps[k], NoContent, k # failAt)]
           okOps == {k \in 1..n : k # failAt}
       IN  /\ fsLog' = fsLog \o done
           /\ dirs' = dirs \cup UNION {DirsAfter({}, ProjectOps[k]) : k \in okOps}
           /\ files' = [p \in (DOMAIN files) \cup
                              {ProjectOps[k].path :
                                 k \in {j \in okOps : ProjectOps[j].op = "writeFile"}}
                          |-> IF p \in DOMAIN files THEN files[p] ELSE NoContent]
           /\ error' = IF failAt = 0 THEN error ELSE FsError(ProjectOps[failAt])
           /\ pc' = AfterCall(failAt = 0, "testsDir")
  /\ UNCHANGED <<inputs, stack, result>>

\* await FileSystem.ensureDir(testsDir), then _processItems(collection, testsDir)
EnsureTestsDir ==
  /\ pc = "testsDir"
  /\ \E ok \in BOOLEAN :
       /\ Issue(FsOp("ensureDir", TestsDir, "project"), NoContent, ok, "walk")
       /\ EnterWalk(AfterCall(ok, "walk"))
  /\ UNCHANGED <<inputs, result>>

\* if (this.options.createSetupFile) writeFile(outputDir/setup.ts)
WriteSetupFile ==
  /\ pc = "setup"
  /\ \E ok \in BOOLEAN :
       /\ Issue(FsOp("writeFile", PlainSetupPath, "setup"), NoContent, ok,
                "walk")
       /\ EnterWalk(AfterCall(ok, "walk"))
  /\ UNCHANGED <<inputs, result>>

\* a folder with items: ensureDir(folderDir) when the structure is kept,
\* then the recursive _processItems call
ProcessFolder ==
  /\ AtItem
  /\ isItemGroup(CurrentItem)
  /\ HasSubItems(CurrentItem)
  /\ LET item == CurrentItem
         folderName == kebabCase(item.name)
         folderPath == FolderPath(Top.parentPath, folderName)
         child == Frame(extractMembers(item.items),
                        ChildParentPath(options, folderPath, Top.parentPath),
                        Append(Top.pos, Top.i))
     IN  IF ShouldEnsureFolderDir(options)
           THEN \E ok \in BOOLEAN :
                  /\ Issue(FsOp("ensureDir",
                                pathJoin(WalkRoot(options), folderPath),
                                "folder"),
                           NoContent, ok, "walk")
                  /\ stack' = IF AfterCall(ok, "walk") = "walk"
                                THEN Append(stack, child) ELSE stack
           ELSE /\ stack' = Append(stack, child)
                /\ UNCHANGED <<fsLog, dirs, files, error, pc>>
  /\ UNCHANGED <<inputs, result>>

\* a folder without items: neither branch of the loop body does anything
SkipEmptyFolder ==
  /\ AtItem
  /\ isItemGroup(CurrentItem)
  /\ ~HasSubItems(CurrentItem)
  /\ stack' = [stack EXCEPT ![Len(stack)].i = @ + 1]
  /\ UNCHANGED <<inputs, pc, fsLog, dirs, files, result, error>>

\* a request: _generateTestFile, then testFiles++
GenerateTestFile ==
  /\ AtItem
  /\ ~isItemGroup(CurrentItem)
  /\ isRequestItem(CurrentItem)
  /\ \E ok \in BOOLEAN :
       /\ Issue(FsOp("writeFile",
                     FilePath(WalkRoot(options), Top.parentPath, CurrentItem),
                     "test"),
                TestContent(options, Top.parentPath, Append(Top.pos, Top.i),
                            CurrentItem),
                ok, "walk")
       /\ stack' = IF AfterCall(ok, "walk") = "walk"
                     THEN [stack EXCEPT ![Len(stack)].i = @ + 1,
                                        ![Len(stack)].testFiles =
                                            TestFilesAfter(@)]
                     ELSE stack
  /\ UNCHANGED <<inputs, result>>

\* the recursive call returns { testFiles, folders } to the folder's loop
ReturnFromFolder ==
  /\ AtEnd
  /\ Len(stack) > 1
  /\ LET n == Len(stack)
     IN  stack' = [SubSeq(stack, 1, n - 1) EXCEPT
                     ![n - 1].i = @ + 1,
                     ![n - 1].testFiles = @ + stack[n].testFiles,
                     ![n - 1].folders = FoldersAfter(@, stack[n].folders)]
  /\ UNCHANGED <<inputs, pc, fsLog, dirs, files, result, error>>

\* the outermost _processItems returns; plain mode returns the results
FinishWalk ==
  /\ AtEnd
  /\ Len(stack) = 1
  /\ result' = [returned |-> ~options.generateFullProject,
                testFiles |-> Top.testFiles, folders |-> Top.folders,
                baseUrl |-> extractBaseUrl(rawCollection.item),
                environment |-> environmentVars(rawEnvironment)]
  /\ pc' = IF options.generateFullProject THEN "enhancedSetup" ELSE "done"
  /\ stack' = <<>>
  /\ UNCHANGED <<inputs, fsLog, dirs, files, error>>

\* full project: writeFile(outputDir/src/setup.ts) after the walk, then return
WriteEnhancedSetup ==
  /\ pc = "enhancedSetup"
  /\ \E ok \in BOOLEAN :
       /\ Issue(FsOp("writeFile", EnhancedSetupPath, "setup"), NoContent, ok,
                "done")
       /\ result' = [result EXCEPT !.returned = (AfterCall(ok, "done") = "done")]
  /\ UNCHANGED <<inputs, stack>>

Next ==
  \/ Validate
  \/ EnsureOutputDir
  \/ GenerateProject
  \/ EnsureTestsDir
  \/ WriteSetupFile
  \/ ProcessFolder
  \/ SkipEmptyFolder
  \/ GenerateTestFile
  \/ ReturnFromFolder
  \/ FinishWalk
  \/ WriteEnhancedSetup

Spec == Init /\ [][Next]_vars

(***************************************************************************)
(* Vocabulary of the properties                                            *)
(***************************************************************************)
LogIdx == 1..Len(fsLog)

IsTestWrite(e)  == e.op = "writeFile" /\ e.kind = "test"
IsSetupWrite(e) == e.op = "writeFile"
                   /\ e.path \in {PlainSetupPath, EnhancedSetupPath}

\* the directory that holds the setup module of the run
SetupDir(opts) == dirname(IF opts.generateFullProject
                            THEN EnhancedSetupPath ELSE PlainSetupPath)

\* the document fails validation as section 4.1 of the spec describes it
CollectionMalformed(c) == ~c.present \/ ~c.info.present \/ ~c.hasItems
EnvironmentMalformed(e) == e.present /\ ~e.hasValues

RECURSIVE CountRequests(_)
CountRequests(items) ==
  IF Len(items) = 0 THEN 0
  ELSE (IF items[1].type = "request" THEN 1
        ELSE CountRequests(items[1].items))
       + CountRequests(Tail(items))

RECURSIVE CountNonEmptyGroups(_)
CountNonEmptyGroups(items) ==
  IF Len(items) = 0 THEN 0
  ELSE (IF items[1].type = "group" /\ Len(items[1].items) > 0
          THEN 1 + CountNonEmptyGroups(items[1].items)
          ELSE 0)
       + CountNonEmptyGroups(Tail(items))

\* tree positions (index paths) of the requests of a forest
RECURSIVE RequestPositions(_, _, _)
RequestPositions(items, prefix, k) ==
  IF k > Len(items) THEN {}
  ELSE (IF items[k].type = "request" THEN {Append(prefix, k)}
        ELSE RequestPositions(items[k].items, Append(prefix, k), 1))
       \cup RequestPositions(items, prefix, k + 1)

\* some group directly contains an empty group
RECURSIVE HasEmptySubGroup(_)
HasEmptySubGroup(items) ==
  \E k \in 1..Len(items) :
    /\ items[k].type = "group"
    /\ \/ \E j \in 1..Len(items[k].items) :
            /\ items[k].items[j].type = "group"
            /\ Len(items[k].items[j].items) = 0
       \/ HasEmptySubGroup(items[k].items)

(***************************************************************************)
(* C1                                                                      *)
(***************************************************************************)
\* C1: when the collection document fails validation, or a supplied
\* environment fails validation, the run never gets past validation: it
\* raises, returns nothing, and no ensureDir or writeFile is ever issued.
C1_InvalidInputWritesNothing ==
  (CollectionMalformed(rawCollection) \/ EnvironmentMalformed(rawEnvironment))
    => /\ pc \in {"start", "failed"}
       /\ fsLog = <<>>
       /\ dirs = {}
       /\ DOMAIN files = {}
       /\ ~result.returned

C1_Witness ==
  /\ pc = "failed"
  /\ error.kind = "Invalid environment"
  /\ ~CollectionMalformed(rawCollection)
  /\ fsLog = <<>>

C3_SetupOnlyWhenRequested ==
  /\ ~options.createSetupFile =>
       \A i \in LogIdx : ~IsSetupWrite(fsLog[i])
  /\ (options.createSetupFile /\ result.returned) =>
       /\ Cardinality({i \in LogIdx : IsSetupWrite(fsLog[i])}) = 1
       /\ \A i \in LogIdx :
            IsSetupWrite(fsLog[i]) => fsLog[i].path = PlainSetupPath

(***************************************************************************)
(* C4                                                                      *)
(***************************************************************************)
\* C4: with maintainFolderStructure, the number of '../' in a test file's
\* setup import equals the number of directory levels between the directory
\* the file is written to and the directory holding the setup module.
C4_ImportResolvesToSetup ==
  options.maintainFolderStructure =>
    \A i \in LogIdx :
      (IsTestWrite(fsLog[i]) /\ fsLog[i].ok) =>
        /\ IsPrefix(SetupDir(options), dirname(fsLog[i].path))
        /\ fsLog[i].content.ups =
             Len(dirname(fsLog[i].path)) - Len(SetupDir(options))

Last(q) == q[Len(q)]

\* C6: when the write of a test file fails, the run raises an error that
\* carries the path of that file; once a FileSystem call has failed no
\* further ensureDir or writeFile is issued and the disk stays as it is, so
\* the files written before the failure are still there.
C6_WriteFailureIsFailFast ==
  [][ /\ (\E i \in LogIdx : ~fsLog[i].ok) =>
            /\ UNCHANGED <<fsLog, dirs, files>>
            /\ pc' = "failed"
      /\ (fsLog' # fsLog /\ IsTestWrite(Last(fsLog')) /\ ~Last(fsLog').ok) =>
            /\ pc' = "failed"
            /\ ~result'.returned
            /\ error'.kind = "writeFile"
            /\ error'.path = Last(fsLog').path
            /\ files' = files
            /\ \A i \in LogIdx :
                 (fsLog[i].op = "writeFile" /\ fsLog[i].ok) =>
                   fsLog[i].path \in DOMAIN files'
    ]_vars

C6_Witness ==
  /\ pc = "failed"
  /\ Len(fsLog) > 0
  /\ IsTestWrite(Last(fsLog))
  /\ ~Last(fsLog).ok
  /\ error.path = Last(fsLog).path
  /\ \E i \in LogIdx : IsTestWrite(fsLog[i]) /\ fsLog[i].ok
  /\ Top.i < Len(Top.items)

(***************************************************************************)
(* C7                                                                      *)
(***************************************************************************)
EnsuredBefore(d, i) ==
  \E j \in 1..(i - 1) :
    fsLog[j].op = "ensureDir" /\ fsLog[j].ok /\ fsLog[j].path = d

\* C7: before the setup module or a test file is written, ensureDir has
\* succeeded for the directory it is written into and for every directory
\* above it down from the output root (the root itself, each enclosing
\* folder).
C7_DirEnsuredBeforeWrite ==
  \A i \in LogIdx :
    (IsTestWrite(fsLog[i]) \/ IsSetupWrite(fsLog[i])) =>
      \A d \in Ancestors(dirname(fsLog[i].path)) : EnsuredBefore(d, i)

C7_Witness ==
  \E i \in LogIdx :
    /\ IsTestWrite(fsLog[i])
    /\ fsLog[i].ok
    /\ Len(dirname(fsLog[i].path)) = Len(OutputDir) + 2
    /\ ~options.generateFullProject

(***************************************************************************)
(* C8                                                                      *)
(***************************************************************************)
\* C8: the folders count a completed run returns is the number of groups,
\* at any depth, that have at least one child; empty groups count zero and
\* the flatten option makes no difference.
C8_FoldersCount ==
  result.returned =>
    result.folders = CountNonEmptyGroups(rawCollection.item)

C8_Witness ==
  /\ result.returned
  /\ ~options.maintainFolderStructure
  /\ result.folders = 1
  /\ HasEmptySubGroup(rawCollection.item)
  /\ CountRequests(rawCollection.item) = 0

(***************************************************************************)
(* C9                                                                      *)
(***************************************************************************)
\* C9: the testFiles count a completed run returns is the number of request
\* nodes of the tree, and the run issued exactly one test-file write for
\* each request node.
C9_TestFilesCount ==
  result.returned =>
    /\ result.testFiles = CountRequests(rawCollection.item)
    /\ \A pos \in RequestPositions(rawCollection.item, <<>>, 1) :
         Cardinality({i \in LogIdx : IsTestWrite(fsLog[i])
                                      /\ fsLog[i].content.pos = pos}) = 1
    /\ Cardinality({i \in LogIdx : IsTestWrite(fsLog[i])})
         = CountRequests(rawCollection.item)

C9_Witness ==
  /\ result.returned
  /\ result.testFiles = 2
  /\ options.generateFullProject
  /\ CountNonEmptyGroups(rawCollection.item) = 1

(***************************************************************************)
(* C10                                                                     *)
(***************************************************************************)
AtEmptyGroup ==
  /\ AtItem
  /\ CurrentItem.type = "group"
  /\ Len(CurrentItem.items) = 0

\* C10: the step of the walk that visits a group without children changes
\* nothing but the loop position: no directory, no file, no FileSystem
\* call, no error, and the testFiles and folders counts stay as they are.
C10_EmptyGroupIsNoOp ==
  [][ AtEmptyGroup =>
        /\ UNCHANGED <<fsLog, dirs, files, error, result, pc, inputs>>
        /\ Len(stack') = Len(stack)
        /\ stack' = [stack EXCEPT ![Len(stack)].i = @ + 1]
    ]_vars

C10_Witness ==
  /\ pc = "walk"
  /\ Len(stack) = 2
  /\ Top.i = 2
  /\ Top.items[1].type = "group"
  /\ Len(Top.items[1].items) = 0
  /\ options.maintainFolderStructure

(***************************************************************************)
(* C11                                                                     *)
(***************************************************************************)
\* the last successful write to the path of log entry i
LastWriteTo(p) ==
  CHOOSE j \in LogIdx :
    /\ fsLog[j].op = "writeFile" /\ fsLog[j].ok /\ fsLog[j].path = p
    /\ \A k \in LogIdx :
         (fsLog[k].op = "writeFile" /\ fsLog[k].ok /\ fsLog[k].path = p)
           => k <= j

\* two test-file writes of the run that went to the same path
Collision(i, j) ==
  /\ i < j
  /\ IsTestWrite(fsLog[i]) /\ IsTestWrite(fsLog[j])
  /\ fsLog[i].ok /\ fsLog[j].ok
  /\ fsLog[i].path = fsLog[j].path

\* C11: requests whose names hyphenate to the same file name in the same
\* directory do not stop the run: a write is issued for each of them, and
\* the file on disk holds what was generated for the later request.
C11_CollisionLastWriteWins ==
  /\ \A i \in LogIdx :
       (IsTestWrite(fsLog[i]) /\ fsLog[i].ok) =>
         /\ fsLog[i].path \in DOMAIN files
         /\ files[fsLog[i].path] = fsLog[LastWriteTo(fsLog[i].path)].content
  /\ \A i, j \in LogIdx :
       Collision(i, j) => files[fsLog[i].path].pos # fsLog[i].content.pos
  /\ (pc = "failed" /\ Len(fsLog) > 0) => ~Last(fsLog).ok
  /\ result.returned =>
       \A pos \in RequestPositions(rawCollection.item, <<>>, 1) :
         \E i \in LogIdx : IsTestWrite(fsLog[i]) /\ fsLog[i].ok
                           /\ fsLog[i].content.pos = pos

C11_Witness ==
  /\ result.returned
  /\ options.maintainFolderStructure
  /\ \E i, j \in LogIdx :
       /\ Collision(i, j)
       /\ files[fsLog[j].path].pos = fsLog[j].content.pos

(***************************************************************************)
(* Direct calls of the pure functions                                      *)
(***************************************************************************)
\* processCollection is not running
Idle ==
  /\ rawCollection = CollectionDoc(FALSE, InfoNone, FALSE, <<>>)
  /\ rawEnvironment = EnvironmentDoc(FALSE, FALSE, FALSE, <<>>)
  /\ options = [createSetupFile |-> TRUE, maintainFolderStructure |-> TRUE,
                generateFullProject |-> FALSE]
  /\ pc = "idle"
  /\ stack = <<>>
  /\ fsLog = <<>>
  /\ dirs = {}
  /\ files = [p \in {} |-> NoContent]
  /\ result = NoResult
  /\ error = NoError

Call(fn, arg) == [fn |-> fn, arg |-> arg]
Returned(v) == [done |-> TRUE, value |-> v]

BaseUrlCalls == {Call("_extractBaseUrl", f) : f \in UrlForests}

\* this._extractBaseUrl(collection)
ExtractBaseUrl ==
  /\ fnCall.fn = "_extractBaseUrl"
  /\ ~fnRet.done
  /\ fnRet' = Returned(extractBaseUrl(fnCall.arg))
  /\ UNCHANGED <<rawCollection, rawEnvironment, options, pc, stack, fsLog,
                 dirs, files, result, error, fnCall, proc>>

EnvLists ==
  UNION {[1..n -> {EnvVar(k, v) : k \in {"", "k", "h"}, v \in {"", "v", "w"}}]
           : n \in 0..MaxEnvVars}

EnvironmentCalls ==
  {Call("environmentVars", EnvironmentDoc(TRUE, TRUE, TRUE, l)) : l \in EnvLists}
  \cup {Call("environmentVars", EnvironmentDoc(FALSE, FALSE, FALSE, <<>>))}

\* const environmentVars = environment ? extractEnvironmentVariables(...) : null
ExtractEnvironment ==
  /\ fnCall.fn = "environmentVars"
  /\ ~fnRet.done
  /\ fnRet' = Returned(environmentVars(fnCall.arg))
  /\ UNCHANGED <<rawCollection, rawEnvironment, options, pc, stack, fsLog,
                 dirs, files, result, error, fnCall, proc>>

(***************************************************************************)
(* Test scripts: statements of the Postman sandbox API, in pieces          *)
(***************************************************************************)
NameIs200 == <<"is", " ", "200">>

TestDecl(q, name) ==
  <<"pm.test", "(", q>> \o name \o <<q, ",", " ", "function () {">>
CodeEquals(d) ==
  <<"pm.expect", "(", "pm.response.code", ")", ".to.equal", "(", d, ")", ";">>
HaveStatus(d) == <<"pm.response.to.have.status", "(", d, ")", ";">>
CloseTest == <<"}", ")", ";">>
LogHi == <<"console.log", "(", "'", "hi", "'", ")">>

Statements ==
  { TestDecl("\"", NameIs200), TestDecl("'", NameIs200),
    TestDecl("\"", <<"it", "'", "s", " ", "200">>),
    TestDecl("\"", <<"pm.expect", " ", "works">>),
    TestDecl("\"", <<"pm.test", "(", "'", "x", "'", ")", " ", "works">>),
    CodeEquals("200"), HaveStatus("200"), CloseTest, LogHi,
    <<"pm.expect", " ", "(", " ", "pm.response.code", " ", ")", ".to.equal",
      "(", " ", "201", " ", ")", ";">>,
    <<"pm.expect", "(", "pm.response.code", ")", ".to.be.oneOf", "(",
      "[200, 201]", ")", ";">>,
    <<"const", " ", "responseData", " ", "=", " ", "pm.response.json()", ";">>,
    <<"pm.expect", "(", "responseData", ")", ".to.be.an", "(", "'", "object",
      "'", ")", ";">>,
    <<"pm.response.headers.get", "(", "'", "Content-Type", "'", ")", ";">>,
    <<"pm.expect", "(", "pm.response.responseTime", ")", ".to.be.below", "(",
      "200", ")", ";">> }

\* the statements of a list on one line, a blank between two of them
RECURSIVE OneLine(_)
OneLine(stmts) ==
  IF Len(stmts) = 0 THEN <<>>
  ELSE IF Len(stmts) = 1 THEN stmts[1]
  ELSE stmts[1] \o <<" ">> \o OneLine(Tail(stmts))

Scripts ==
  {OneLine(l) : l \in UNION {[1..n -> Statements] : n \in 0..MaxStatements}}

ConvertCalls == {Call("convertPostmanTestToMocha", sc) : sc \in Scripts}

\* TestConverter.convertPostmanTestToMocha(testScript)
ConvertScript ==
  /\ fnCall.fn = "convertPostmanTestToMocha"
  /\ ~fnRet.done
  /\ fnRet' = Returned(convertPostmanTestToMocha(fnCall.arg))
  /\ UNCHANGED <<rawCollection, rawEnvironment, options, pc, stack, fsLog,
                 dirs, files, result, error, fnCall, proc>>

UrlCalls ==
  {Call("_extractUrl", UrlArg(b, u))
     : b \in BOOLEAN, u \in {UrlA, UrlB, UrlTemplate, UrlBare, UrlNone}}

\* this._extractUrl(request.url, item.name)
ExtractUrl ==
  /\ fnCall.fn = "_extractUrl"
  /\ ~fnRet.done
  /\ fnRet' = Returned(extractUrl(fnCall.arg))
  /\ UNCHANGED <<rawCollection, rawEnvironment, options, pc, stack, fsLog,
                 dirs, files, result, error, fnCall, proc>>

(***************************************************************************)
(* Runs of processCollection over requests that differ in url, headers     *)
(* and test script                                                         *)
(***************************************************************************)
EmitRequests ==
  { RichRequest(NameGetAll, UrlA, <<>>, <<>>),
    RichRequest(NameGetAll, UrlA, <<>>, <<LogHi>>),
    RichRequest(NameGetAll, UrlA, <<>>,
                <<TestDecl("\"", NameIs200), HaveStatus("200"), CloseTest>>),
    RichRequest(NameGetAll, UrlA,
                <<Header(<<"A", "c", "c", "e", "p", "t">>, <<"*", "/", "*">>,
                         FALSE),
                  Header(<<"X", "-", "D">>, <<"1">>, TRUE)>>, <<>>),
    RichRequest(NameGetAll, UrlTemplate, <<>>, <<>>),
    RichRequest(NameGetAll, UrlBare, <<>>, <<>>),
    RichRequest(NameGetAll, UrlNone, <<>>, <<>>) }

EmitCollections ==
  {CollectionDoc(TRUE, InfoFull, TRUE, f)
     : f \in UNION {ForestsOver(EmitRequests, {NameUsers}, n)
                      : n \in 0..MaxEmitNodes}}
  \cup {CollectionDoc(TRUE, InfoNone, FALSE, <<>>)}

InitEmit ==
  /\ rawCollection \in EmitCollections
  /\ rawEnvironment = EnvironmentDoc(FALSE, FALSE, FALSE, <<>>)
  /\ options \in Options
  /\ pc = "start"
  /\ stack = <<>>
  /\ fsLog = <<>>
  /\ dirs = {}
  /\ files = [p \in {} |-> NoContent]
  /\ result = NoResult
  /\ error = NoError
  /\ fnCall = NoCall
  /\ fnRet = NoRet
  /\ proc = NoProc

SpecEmit == InitEmit /\ [][Next]_vars

\* Validator.validateCollection(collection)
ValidateCollection ==
  /\ fnCall.fn = "validateCollection"
  /\ ~fnRet.done
  /\ fnRet' = Returned(validateCollection(fnCall.arg))
  /\ UNCHANGED <<rawCollection, rawEnvironment, options, pc, stack, fsLog,
                 dirs, files, result, error, fnCall, proc>>

(***************************************************************************)
(* The command line: CLI.run around processCollection, and the logger      *)
(***************************************************************************)
LevelRank(level) ==
  CASE level = "debug" -> 0 [] level = "info" -> 1 [] level = "warn" -> 2
    [] level = "error" -> 3

\* Logger._shouldLog
shouldLog(p, level) ==
  IF p.silent THEN FALSE ELSE LevelRank(level) >= LevelRank(p.level)

\* Logger._log: the run p after logging msg at level
Log(p, level, msg) ==
  IF shouldLog(p, level)
    THEN [p EXCEPT !.out = Append(@, [level |-> level, msg |-> msg])]
    ELSE p

Exit(p, code) == [p EXCEPT !.step = "exited", !.exitCode = code]

CliFlags ==
  [silent : BOOLEAN, debug : BOOLEAN, flat : BOOLEAN, setup : BOOLEAN,
   fullProject : BOOLEAN,
   collectionReadable : BOOLEAN,
   environment : {"none", "readable", "unreadable"}]

\* program.parse() ... logger.info(`Output: ...`): configure the logger
CliConfigure ==
  /\ proc.kind = "cli" /\ proc.step = "configure"
  /\ LET a == fnCall.arg.flags
         p1 == IF a.debug
                 THEN Log([proc EXCEPT !.level = "debug"], "info",
                          "Debug mode enabled")
                 ELSE proc
         p2 == [p1 EXCEPT !.silent = a.silent]
         p3 == Log(Log(p2, "info", "Collection"), "info", "Output")
         p4 == IF a.environment # "none" THEN Log(p3, "info", "Environment")
               ELSE p3
     IN  proc' = [p4 EXCEPT !.step = "readCollection"]
  /\ UNCHANGED <<rawCollection, rawEnvironment, options, pc, stack, fsLog,
                 dirs, files, result, error, fnCall, fnRet>>

\* collectionJson = await FileSystem.readJsonFile(collectionPath)
CliReadCollection ==
  /\ proc.kind = "cli" /\ proc.step = "readCollection"
  /\ IF fnCall.arg.flags.collectionReadable
       THEN /\ rawCollection' = fnCall.arg.collectionFile
            /\ proc' = [Log(proc, "debug", "Collection file read successfully")
                          EXCEPT !.step = "readEnvironment"]
       ELSE /\ rawCollection' = rawCollection
            /\ proc' = Exit(Log(proc, "error", "File not found"), 1)
  /\ UNCHANGED <<rawEnvironment, options, pc, stack, fsLog, dirs, files,
                 result, error, fnCall, fnRet>>

EnvironmentReadFailureExits(p) ==
  Exit(Log(p, "error", "Failed to read environment file"), 1)

\* the catch around the read of the environment file
EnvironmentReadFailure(p) ==
  [Log(p, "warn", "Failed to read environment file")
     EXCEPT !.step = "validate"]

\* environmentJson = await FileSystem.readJsonFile(environmentPath)
CliReadEnvironment ==
  /\ proc.kind = "cli" /\ proc.step = "readEnvironment"
  /\ CASE fnCall.arg.flags.environment = "none" ->
            /\ rawEnvironment' = rawEnvironment
            /\ proc' = [proc EXCEPT !.step = "validate"]
       [] fnCall.arg.flags.environment = "readable" ->
            /\ rawEnvironment' = fnCall.arg.environmentFile
            /\ proc' = [Log(proc, "debug",
                            "Environment file read successfully")
                          EXCEPT !.step = "validate"]
       [] fnCall.arg.flags.environment = "unreadable" ->
            /\ rawEnvironment' = rawEnvironment
            /\ proc' = EnvironmentReadFailure(proc)
  /\ UNCHANGED <<rawCollection, options, pc, stack, fsLog, dirs, files,
                 result, error, fnCall, fnRet>>

\* Validator.validateCollection(collectionJson), new PostmanConverter(...),
\* converter.processCollection(...) is called
CliConvert ==
  /\ proc.kind = "cli" /\ proc.step = "validate"
  /\ IF ~validateCollection(rawCollection).isValid
       THEN /\ proc' = Exit(Log(proc, "error", "Invalid collection"), 1)
            /\ UNCHANGED <<options, pc>>
       ELSE /\ proc' = [proc EXCEPT !.step = "converting"]
            /\ options' = [createSetupFile |-> fnCall.arg.flags.setup,
                           maintainFolderStructure |-> ~fnCall.arg.flags.flat,
                           generateFullProject |-> fnCall.arg.flags.fullProject]
            /\ pc' = "start"
  /\ UNCHANGED <<rawCollection, rawEnvironment, stack, fsLog, dirs, files,
                 result, error, fnCall, fnRet>>

\* processCollection returned (the report) or threw (the catch of run)
CliFinish ==
  /\ proc.kind = "cli" /\ proc.step = "converting"
  /\ pc \in {"done", "failed"}
  /\ proc' = IF pc = "done"
               THEN Exit(Log(Log(proc, "info", "Conversion completed"),
                             "info", "Generated"), 0)
               ELSE Exit(Log(proc, "error", "Conversion failed"), 1)
  /\ UNCHANGED <<rawCollection, rawEnvironment, options, pc, stack, fsLog,
                 dirs, files, result, error, fnCall, fnRet>>

InitCli ==
  /\ Idle
  /\ fnCall \in {Call("CLI.run",
                      [flags |-> f, collectionFile |-> c,
                       environmentFile |-> e])
                   : f \in CliFlags,
                     c \in {CollectionDoc(TRUE, InfoFull, TRUE, t)
                              : t \in UNION {ForestsOver({Request(NameGet)},
                                                        {NameUsers}, n)
                                               : n \in 0..MaxEmitNodes}}
                           \cup {CollectionDoc(TRUE, InfoNone, FALSE, <<>>)},
                     e \in {EnvironmentDoc(TRUE, TRUE, TRUE,
                                           <<EnvVar("k", "v")>>)}}
  /\ fnRet = NoRet
  /\ proc = [kind |-> "cli", step |-> "configure", silent |-> FALSE,
             level |-> "info", out |-> <<>>, exitCode |-> -1]

NextCli ==
  \/ CliConfigure
  \/ CliReadCollection
  \/ CliReadEnvironment
  \/ CliConvert
  \/ CliFinish
  \/ Next

SpecCli == InitCli /\ [][NextCli]_vars

(***************************************************************************)
(* The VS Code extension: runGenerationWorkflow.  proc.step is the await   *)
(* the workflow is suspended at; an action is the resolution of that await *)
(* and the synchronous code up to the next one.  The cancellation token    *)
(* can only change while the workflow is suspended.                        *)
(***************************************************************************)
Suspended(p) ==
  /\ p.step \in {"envPick", "envDialog", "outPick", "outDialog", "envRead",
                 "warning", "converting", "notification"}
  /\ ~(p.step = "converting" /\ pc = "start")

\* the user presses Cancel on the progress notification
CancelRequested ==
  /\ proc.kind = "workflow"
  /\ Suspended(proc)
  /\ ~proc.cancelled
  /\ proc' = [proc EXCEPT !.cancelled = TRUE, !.cancelledAt = proc.step,
                          !.logAtCancel = Len(fsLog)]
  /\ UNCHANGED <<rawCollection, rawEnvironment, options, pc, stack, fsLog,
                 dirs, files, result, error, fnCall, fnRet>>

\* if (token.isCancellationRequested) { return; }
TokenCheck(p, next) ==
  IF p.cancelled THEN [p EXCEPT !.step = "returned"]
  ELSE [p EXCEPT !.step = next]

\* the first quick pick of selectEnvironmentFile resolves
EnvPickResolved ==
  /\ proc.kind = "workflow" /\ proc.step = "envPick"
  /\ \E useEnvironment \in {"dismissed", "No", "Yes"} :
       proc' = IF useEnvironment # "Yes" \/ proc.cancelled
                 THEN TokenCheck(proc, "outPick")
                 ELSE [proc EXCEPT !.step = "envDialog"]
  /\ UNCHANGED <<rawCollection, rawEnvironment, options, pc, stack, fsLog,
                 dirs, files, result, error, fnCall, fnRet>>

\* the open dialog of selectEnvironmentFile resolves
EnvDialogResolved ==
  /\ proc.kind = "workflow" /\ proc.step = "envDialog"
  /\ \E picked \in BOOLEAN :
       proc' = TokenCheck([proc EXCEPT !.environmentUri = picked], "outPick")
  /\ UNCHANGED <<rawCollection, rawEnvironment, options, pc, stack, fsLog,
                 dirs, files, result, error, fnCall, fnRet>>

\* from the return of selectOutputDirectory to the next await
AfterOutputSelection(p) ==
  IF ~p.outputDir \/ p.cancelled THEN [p EXCEPT !.step = "returned"]
  ELSE IF p.environmentUri THEN TokenCheck(p, "envRead")
  ELSE TokenCheck(p, "initConverter")

\* the quick pick of selectOutputDirectory resolves
OutPickResolved ==
  /\ proc.kind = "workflow" /\ proc.step = "outPick"
  /\ \E choice \in {"dismissed", "default", "custom"} :
       proc' = IF choice = "dismissed" \/ proc.cancelled
                 THEN AfterOutputSelection(proc)
               ELSE IF choice = "default"
                 THEN AfterOutputSelection([proc EXCEPT !.outputDir = TRUE])
               ELSE [proc EXCEPT !.step = "outDialog"]
  /\ UNCHANGED <<rawCollection, rawEnvironment, options, pc, stack, fsLog,
                 dirs, files, result, error, fnCall, fnRet>>

\* the folder dialog of selectOutputDirectory resolves
OutDialogResolved ==
  /\ proc.kind = "workflow" /\ proc.step = "outDialog"
  /\ \E picked \in BOOLEAN :
       proc' = AfterOutputSelection([proc EXCEPT !.outputDir = picked])
  /\ UNCHANGED <<rawCollection, rawEnvironment, options, pc, stack, fsLog,
                 dirs, files, result, error, fnCall, fnRet>>

\* readFileAsync and JSON.parse of the environment file settle
EnvReadResolved ==
  /\ proc.kind = "workflow" /\ proc.step = "envRead"
  /\ \E parsed \in BOOLEAN :
       IF parsed
         THEN /\ rawEnvironment' = fnCall.arg.environmentFile
              /\ proc' = TokenCheck(proc, "initConverter")
         ELSE /\ rawEnvironment' = rawEnvironment
              /\ proc' = [proc EXCEPT !.step = "warning"]
  /\ UNCHANGED <<rawCollection, options, pc, stack, fsLog, dirs, files,
                 result, error, fnCall, fnRet>>

\* the warning message about the environment file resolves
WarningResolved ==
  /\ proc.kind = "workflow" /\ proc.step = "warning"
  /\ \E continueAnyway \in {"dismissed", "Continue", "Cancel"} :
       proc' = IF continueAnyway # "Continue"
                 THEN [proc EXCEPT !.step = "returned"]
                 ELSE TokenCheck(proc, "initConverter")
  /\ UNCHANGED <<rawCollection, rawEnvironment, options, pc, stack, fsLog,
                 dirs, files, result, error, fnCall, fnRet>>

\* steps 4 and 5 up to the call of converter.processCollection
StartConversion ==
  /\ proc.kind = "workflow" /\ proc.step = "initConverter"
  /\ proc' = IF proc.cancelled THEN [proc EXCEPT !.step = "returned"]
             ELSE [proc EXCEPT !.step = "converting", !.invoked = TRUE]
  /\ pc' = IF proc.cancelled THEN pc ELSE "start"
  /\ options' = fnCall.arg.config
  /\ UNCHANGED <<rawCollection, rawEnvironment, stack, fsLog, dirs, files,
                 result, error, fnCall, fnRet>>

ShowAlways(p) == FALSE

\* the check after the await of processCollection
SuppressSuccess(p) == p.cancelled

\* processCollection returned or threw
ConversionSettled ==
  /\ proc.kind = "workflow" /\ proc.step = "converting"
  /\ pc \in {"done", "failed"}
  /\ proc' = IF pc = "failed" THEN [proc EXCEPT !.step = "threw"]
             ELSE IF SuppressSuccess(proc)
               THEN [proc EXCEPT !.step = "returned"]
             ELSE [proc EXCEPT !.step = "notification", !.notified = TRUE]
  /\ UNCHANGED <<rawCollection, rawEnvironment, options, pc, stack, fsLog,
                 dirs, files, result, error, fnCall, fnRet>>

InitWorkflow ==
  /\ rawCollection \in
       {CollectionDoc(TRUE, InfoFull, TRUE, t)
          : t \in UNION {ForestsOver({Request(NameGet)}, {NameUsers}, n)
                           : n \in 0..MaxEmitNodes}}
  /\ rawEnvironment = EnvironmentDoc(FALSE, FALSE, FALSE, <<>>)
  /\ options = [createSetupFile |-> TRUE, maintainFolderStructure |-> TRUE,
                generateFullProject |-> FALSE]
  /\ pc = "idle"
  /\ stack = <<>>
  /\ fsLog = <<>>
  /\ dirs = {}
  /\ files = [p \in {} |-> NoContent]
  /\ result = NoResult
  /\ error = NoError
  /\ fnCall \in {Call("runGenerationWorkflow",
                      [config |-> c,
                       environmentFile |->
                         EnvironmentDoc(TRUE, TRUE, TRUE,
                                        <<EnvVar("k", "v")>>)])
                   : c \in Options}
  /\ fnRet = NoRet
  /\ proc = [kind |-> "workflow", step |-> "envPick", cancelled |-> FALSE,
             cancelledAt |-> "never", logAtCancel |-> 0,
             environmentUri |-> FALSE, outputDir |-> FALSE,
             invoked |-> FALSE, notified |-> FALSE]

NextWorkflow ==
  \/ CancelRequested
  \/ EnvPickResolved
  \/ EnvDialogResolved
  \/ OutPickResolved
  \/ OutDialogResolved
  \/ EnvReadResolved
  \/ WarningResolved
  \/ StartConversion
  \/ ConversionSettled
  \/ Next

SpecWorkflow == InitWorkflow /\ [][NextWorkflow]_vars

(***************************************************************************)
(* withRetry and the FileSystem operations handed to it.  An attempt's     *)
(* outcome is what the underlying fs call does: "ok", or the code of the   *)
(* error it throws ("" for an error without code).                         *)
(***************************************************************************)
BaseDelayMs == 100
MaxDelayMs  == 2000

RETRYABLE_ERROR_CODES ==
  {"EBUSY", "EACCES", "EPERM", "EMFILE", "ENFILE", "EAGAIN", "ENOTEMPTY"}

\* the error an operation throws is an object with or without a code
isRetryableError(err) == err.hasCode /\ err.code \in RETRYABLE_ERROR_CODES

\* the error the operation passed to withRetry throws when the fs call
\* fails with code: writeFile and ensureDir catch it and throw a new Error
\* with a message only, readJsonFile rethrows it
OperationError(op, code) ==
  IF op \in {"writeFile", "ensureDir"}
    THEN [hasCode |-> FALSE, code |-> ""]
    ELSE [hasCode |-> code # "", code |-> code]

RetryAlways(err, attempt, maxRetries) == attempt = maxRetries

\* !isRetryableError(error) || attempt === maxRetries
GiveUp(err, attempt, maxRetries) ==
  ~isRetryableError(err) \/ attempt = maxRetries

\* Math.min(baseDelayMs * Math.pow(2, attempt), maxDelayMs)
RetryDelay(attempt) ==
  IF BaseDelayMs * (2 ^ attempt) < MaxDelayMs
    THEN BaseDelayMs * (2 ^ attempt) ELSE MaxDelayMs

\* one iteration of the for loop of withRetry
RetryAttempt ==
  /\ proc.kind = "retry" /\ proc.state = "running"
  /\ proc.attempt <= fnCall.arg.maxRetries
  /\ LET outcome == fnCall.arg.outcomes[proc.attempt + 1]
         err     == OperationError(fnCall.arg.op, outcome)
         called  == [proc EXCEPT !.calls = @ + 1]
     IN  proc' =
           IF outcome = "ok" THEN [called EXCEPT !.state = "returned"]
           ELSE IF GiveUp(err, proc.attempt, fnCall.arg.maxRetries)
             THEN [called EXCEPT !.state = "thrown", !.lastError = err]
           ELSE [called EXCEPT !.lastError = err,
                               !.sleeps = Append(@, RetryDelay(proc.attempt)),
                               !.attempt = @ + 1]
  /\ UNCHANGED <<rawCollection, rawEnvironment, options, pc, stack, fsLog,
                 dirs, files, result, error, fnCall, fnRet>>

InitRetry ==
  /\ Idle
  /\ fnCall \in {Call("withRetry", [op |-> op, maxRetries |-> m,
                                    outcomes |-> o])
                   : op \in {"writeFile", "ensureDir", "readJsonFile"},
                     m \in 0..MaxRetriesBound,
                     o \in [1..(MaxRetriesBound + 1) ->
                              {"ok", "EBUSY", "ENOENT", ""}]}
  /\ fnRet = NoRet
  /\ proc = [kind |-> "retry", state |-> "running", attempt |-> 0,
             calls |-> 0, sleeps |-> <<>>,
             lastError |-> [hasCode |-> FALSE, code |-> ""]]

SpecRetry ==
  InitRetry /\ [][RetryAttempt]_vars /\ WF_vars(RetryAttempt)

(***************************************************************************)
(* C12                                                                     *)
(***************************************************************************)
\* the URLs of the requests of a forest, in depth-first pre-order
RECURSIVE PreOrderUrls(_)
PreOrderUrls(items) ==
  IF Len(items) = 0 THEN <<>>
  ELSE (IF items[1].type = "request" THEN <<items[1].url>>
        ELSE PreOrderUrls(items[1].items))
       \o PreOrderUrls(Tail(items))

ParseableIdx(urls) == {i \in 1..Len(urls) : UrlParses(urls[i])}

FirstParseable(urls) ==
  urls[CHOOSE i \in ParseableIdx(urls) : \A j \in ParseableIdx(urls) : i <= j]

\* C12: the extracted base URL is scheme and host of the first request, in
\* depth-first document order, whose URL parses; requests with unparseable
\* URLs are passed over; without any parseable URL (or any request) the
\* result is the placeholder https://api.example.com.
C12_BaseUrlIsFirstParseable ==
  (fnCall.fn = "_extractBaseUrl" /\ fnRet.done) =>
    LET urls == PreOrderUrls(fnCall.arg)
    IN  IF ParseableIdx(urls) = {}
          THEN fnRet.value = <<"https:", "/", "/", "api.example.com">>
          ELSE fnRet.value = SubSeq(FirstParseable(urls), 1, 4)

C12_Witness ==
  /\ fnCall.fn = "_extractBaseUrl"
  /\ fnRet.done
  /\ Len(fnCall.arg) = 2
  /\ fnCall.arg[1].type = "request"
  /\ ~UrlParses(fnCall.arg[1].url)
  /\ fnCall.arg[2].type = "group"
  /\ fnRet.value = <<"http:", "/", "/", "b.test">>

(***************************************************************************)
(* C13                                                                     *)
(***************************************************************************)
\* the entries of a value list that have both a key and a value
Complete(values) ==
  {i \in 1..Len(values) : values[i].key # "" /\ values[i].value # ""}

\* C13: the extracted map has exactly the keys of the entries that have both
\* a key and a value, each key carries the value of the last such entry with
\* that key, entries missing either are skipped, and without an environment
\* the returned environment is null.
C13_EnvironmentMap ==
  (fnCall.fn = "environmentVars" /\ fnRet.done) =>
    LET values == fnCall.arg.values
        env    == fnRet.value
    IN  /\ env.isNull <=> ~fnCall.arg.present
        /\ DOMAIN env.map = {values[i].key : i \in Complete(values)}
        /\ \A i \in Complete(values) :
             (\A j \in Complete(values) :
                values[j].key = values[i].key => j <= i)
             => env.map[values[i].key] = values[i].value

C13_Witness ==
  /\ fnCall.fn = "environmentVars"
  /\ fnRet.done
  /\ fnCall.arg.values = <<[key |-> "k", value |-> "v"],
                           [key |-> "h", value |-> ""],
                           [key |-> "k", value |-> "w"]>>
  /\ fnRet.value.map = [x \in {"k"} |-> "w"]

(***************************************************************************)
(* C14, C15                                                                *)
(***************************************************************************)
\* the item at a tree position of a forest
RECURSIVE ItemAt(_, _)
ItemAt(items, pos) ==
  IF Len(pos) = 1 THEN items[pos[1]]
  ELSE ItemAt(items[pos[1]].items, Tail(pos))

\* the request a test write of the trace belongs to
WrittenItem(e) == ItemAt(rawCollection.item, e.content.pos)

TestWritten(i) == IsTestWrite(fsLog[i]) /\ fsLog[i].ok

\* the script text of a request, and whether a conversion changes it
ScriptText(item) == JoinLines(item.script)
NoRuleFires(item) ==
  /\ ScriptText(item) # <<>>
  /\ convertPostmanTestToMocha(ScriptText(item)) = ScriptText(item)

\* the assertion body the same request gets without a script
BodyWithoutScript(e) ==
  generateMochaTestFromRequest(
    [name |-> WrittenItem(e).name,
     url |-> [isString |-> FALSE, text |-> WrittenItem(e).url],
     header |-> WrittenItem(e).header, script |-> <<>>],
    e.content.parentName, e.content.enhanced).assertions

\* C14: a request whose script is non-empty but matches no rewrite rule
\* gets, in its test file, the default assertion, exactly as a request
\* with an absent or empty script does.
C14_UnmatchedScriptGetsDefault ==
  \A i \in LogIdx :
    (TestWritten(i) /\ NoRuleFires(WrittenItem(fsLog[i]))) =>
      fsLog[i].content.code.assertions = BodyWithoutScript(fsLog[i])

DefaultInserted(i) ==
  /\ TestWritten(i)
  /\ convertPostmanTestToMocha(ScriptText(WrittenItem(fsLog[i]))) = <<>>

C18_SuiteNamesParentGroup ==
  \A i \in LogIdx :
    TestWritten(i) =>
      LET pos == fsLog[i].content.pos
          own == WrittenItem(fsLog[i]).name
      IN  fsLog[i].content.code.suite =
            IF Len(pos) > 1
              THEN ItemAt(rawCollection.item,
                          SubSeq(pos, 1, Len(pos) - 1)).name
                   \o <<" ", "-", " ">> \o own
              ELSE own

EnabledHeaders(item) ==
  {k \in 1..Len(item.header) : ~item.header[k].disabled}

\* C19: the test file has one header-set call for every enabled header of
\* the request and none for a disabled one, in plain and in enhanced mode.
C19_SetCallPerEnabledHeader ==
  \A i \in LogIdx :
    TestWritten(i) =>
      LET item == WrittenItem(fsLog[i])
          sets == fsLog[i].content.code.sets
      IN  /\ Len(sets) = Cardinality(EnabledHeaders(item))
          /\ \A k \in EnabledHeaders(item) :
               \E j \in 1..Len(sets) : sets[j].key = item.header[k].key
          /\ \A k \in 1..Len(item.header) :
               item.header[k].disabled =>
                 \A j \in 1..Len(sets) : sets[j].key # item.header[k].key

SlashAt(u) == {k \in 1..Len(u) : u[k] = "/"}

\* the pieces of u from its first '/' up to the first '?' or '#' after it
FirstSlashPath(u) ==
  LET k == CHOOSE m \in SlashAt(u) : \A n \in SlashAt(u) : m <= n
      stops == {n \in k..Len(u) : u[n] \in {"?", "#"}}
  IN  IF stops = {} THEN SubSeq(u, k, Len(u))
      ELSE SubSeq(u, k, (CHOOSE m \in stops : \A n \in stops : m <= n) - 1)

\* C20: for a request whose URL is not absolute, the test file calls the
\* request with the '/'-prefixed path of the URL ('{{baseUrl}}/users/1'
\* gives '/users/1'), and with '/' only when the URL has no such path or is
\* absent.
C20_RelativeUrlKeepsPath ==
  \A i \in LogIdx :
    (TestWritten(i) /\ ~UrlParses(WrittenItem(fsLog[i]).url)) =>
      fsLog[i].content.code.path =
        IF SlashAt(WrittenItem(fsLog[i]).url) # {}
          THEN FirstSlashPath(WrittenItem(fsLog[i]).url)
          ELSE <<"/">>

(***************************************************************************)
(* C16, C17                                                                *)
(***************************************************************************)
\* text t occurs in text s
Contains(s, t) ==
  \E i \in 1..(Len(s) - Len(t) + 1) : SubSeq(s, i, i + Len(t) - 1) = t

TestNames == {<<"is", " ", "200">>, <<"it", "'", "s", " ", "200">>,
              <<"pm.expect", " ", "works">>}

HasTestDecl(s, q, name) == Contains(s, <<"pm.test", "(", q>> \o name \o <<q>>)

HasCodeEquals(s, d) ==
  Contains(s, <<"pm.expect", "(", "pm.response.code", ")", ".to.equal", "(",
                d, ")">>)

\* C16: for every script with a named-test declaration and a fully-qualified
\* status-code equality check, the translation contains the rewritten test
\* declaration with the test name verbatim and the rewritten status
\* assertion with the numeric literal unchanged.
C16_DeclarationAndStatusSurvive ==
  (fnCall.fn = "convertPostmanTestToMocha" /\ fnRet.done) =>
    \A q \in {"\"", "'"}, name \in TestNames, d \in {"200", "201"} :
      (HasTestDecl(fnCall.arg, q, name) /\ HasCodeEquals(fnCall.arg, d)) =>
        /\ Contains(fnRet.value, <<"it", "(", "\"">> \o name \o <<"\"">>)
        /\ Contains(fnRet.value,
                    <<"expect", "(", "response.status", ")", ".to.equal",
                      "(", d, ")">>)

\* C17: no pm.response.code remains in a translation; every occurrence,
\* also outside a fully-qualified equality check, has become
\* response.status.
C17_NoStatusCodeAccessRemains ==
  (fnCall.fn = "convertPostmanTestToMocha" /\ fnRet.done) =>
    \A i \in 1..Len(fnRet.value) : fnRet.value[i] # "pm.response.code"

(***************************************************************************)
(* C21, C22                                                                *)
(***************************************************************************)
\* C21: processCollection with an absent collection document aborts with
\* the 'Invalid collection' failure carrying 'Collection is required', and
\* nothing is written.
C21_AbsentCollectionIsInvalidCollection ==
  (~rawCollection.present /\ pc = "failed") =>
    /\ error.kind = "Invalid collection"
    /\ error.errors = <<"Collection is required">>
    /\ fsLog = <<>>
    /\ DOMAIN files = {}

InSeq(x, q) == \E k \in 1..Len(q) : q[k] = x

\* C22: collection validation reports every structural problem present: a
\* missing info object and a missing items array are both in the error
\* list when both are missing, isValid is true exactly when the error list
\* is empty, and warnings never make isValid false.
C22_ValidationReportsAllErrors ==
  (/\ fnCall.fn = "validateCollection" /\ fnRet.done /\ fnCall.arg.present
   /\ (fnCall.arg.info.present \/ fnCall.arg.info = InfoNone)
   /\ (fnCall.arg.hasItems \/ fnCall.arg.item = <<>>)) =>
    LET c == fnCall.arg
        r == fnRet.value
    IN  /\ InSeq("Collection must have an info object", r.errors)
             <=> ~c.info.present
        /\ InSeq("Collection must have an items array", r.errors)
             <=> ~c.hasItems
        /\ r.isValid <=> (r.errors = <<>>)
        /\ (c.info.present /\ c.hasItems) => r.isValid

C22_Witness ==
  /\ fnCall.fn = "validateCollection"
  /\ fnRet.done
  /\ fnCall.arg.present /\ ~fnCall.arg.info.present /\ ~fnCall.arg.hasItems
  /\ Len(fnRet.value.errors) = 2
  /\ ~fnRet.value.isValid

(***************************************************************************)
(* C23, C25                                                                *)
(***************************************************************************)
HasLine(level) == \E k \in 1..Len(proc.out) : proc.out[k].level = level

\* C23: with --silent, all output except errors is suppressed and
\* error-level messages are still emitted: a run that aborts with exit
\* code 1 has printed its reason.
C23_SilentStillPrintsErrors ==
  (proc.kind = "cli" /\ fnCall.arg.flags.silent) =>
    /\ \A k \in 1..Len(proc.out) : proc.out[k].level = "error"
    /\ proc.exitCode = 1 => HasLine("error")

\* C25: a collection file that cannot be read ends the run with exit code 1
\* before any conversion or output; an environment file that cannot be read
\* only produces a warning, the conversion then runs with no environment,
\* and a run whose conversion returns ends with exit code 0.
C25_UnreadableCollectionFatalEnvironmentNot ==
  proc.kind = "cli" =>
    LET f == fnCall.arg.flags
    IN  /\ ~f.collectionReadable =>
             /\ pc = "idle" /\ fsLog = <<>> /\ ~result.returned
             /\ proc.step = "exited" => proc.exitCode = 1
        /\ (f.environment = "unreadable" /\ f.collectionReadable) =>
             /\ ~rawEnvironment.present
             /\ (proc.step \in {"validate", "converting"} /\ ~f.silent)
                  => HasLine("warn")
             /\ (proc.step = "exited" /\ proc.exitCode = 1) =>
                  (pc = "failed"
                   \/ ~validateCollection(rawCollection).isValid)
             /\ (proc.step = "exited" /\ pc = "done") =>
                  /\ proc.exitCode = 0
                  /\ result.returned /\ result.environment.isNull

C25_Witness ==
  /\ proc.kind = "cli"
  /\ fnCall.arg.flags.environment = "unreadable"
  /\ proc.step = "exited"
  /\ proc.exitCode = 0
  /\ HasLine("warn")
  /\ result.returned /\ result.testFiles > 0 /\ result.environment.isNull

(***************************************************************************)
(* C24, C26                                                                *)
(***************************************************************************)
RetryableCode(code) ==
  code \in {"EBUSY", "EACCES", "EPERM", "EMFILE", "ENFILE", "EAGAIN",
            "ENOTEMPTY"}

\* C24: FileSystem.writeFile and FileSystem.ensureDir retry: when the
\* underlying call fails with a retryable code, the operation is attempted
\* again, up to maxRetries further attempts, and the call succeeds if a
\* later attempt succeeds.
C24_WriteAndEnsureDirRetry ==
  (/\ proc.kind = "retry"
   /\ fnCall.arg.op \in {"writeFile", "ensureDir"}
   /\ proc.state = "thrown") =>
    \/ proc.calls = fnCall.arg.maxRetries + 1
    \/ ~RetryableCode(fnCall.arg.outcomes[proc.calls])

\* C26: withRetry terminates and invokes the operation at most
\* maxRetries + 1 times; it returns at the first successful attempt without
\* further attempts, rethrows without sleeping on a non-retryable error,
\* and rethrows the last error after the final allowed attempt fails.
C26_WithRetryBounded ==
  /\ [](proc.kind = "retry" =>
         /\ proc.calls <= fnCall.arg.maxRetries + 1
         /\ proc.state = "returned" =>
              /\ fnCall.arg.outcomes[proc.calls] = "ok"
              /\ \A k \in 1..(proc.calls - 1) : fnCall.arg.outcomes[k] # "ok"
              /\ Len(proc.sleeps) = proc.calls - 1
         /\ proc.state = "thrown" =>
              /\ Len(proc.sleeps) = proc.calls - 1
              /\ \A k \in 1..proc.calls : fnCall.arg.outcomes[k] # "ok"
              /\ \/ proc.calls = fnCall.arg.maxRetries + 1
                 \/ ~(proc.lastError.hasCode
                      /\ RetryableCode(proc.lastError.code))
         /\ proc.state = "running" =>
              /\ Len(proc.sleeps) = proc.calls
              /\ proc.calls > 0 =>
                   (proc.lastError.hasCode
                    /\ RetryableCode(proc.lastError.code)))
  /\ <>(proc.kind = "retry" /\ proc.state # "running")

C26_Witness ==
  /\ proc.kind = "retry"
  /\ fnCall.arg.op = "readJsonFile"
  /\ fnCall.arg.maxRetries = 3
  /\ proc.state = "returned"
  /\ proc.calls = 3
  /\ proc.sleeps = <<100, 200>>

(***************************************************************************)
(* C28                                                                     *)
(***************************************************************************)
\* document order of two tree positions: at the first index where they
\* differ the first one is smaller (a later sibling, or anything below a
\* later sibling, comes after)
DocBefore(p, q) ==
  \E k \in 1..Len(p) :
    /\ k <= Len(q)
    /\ p[k] < q[k]
    /\ \A j \in 1..(k - 1) : p[j] = q[j]

TestWriteAt(i, p) == IsTestWrite(fsLog[i]) /\ fsLog[i].content.pos = p

\* C28: the walk is a sequential pre-order traversal in document order: the
\* k-th test write of the trace is the file of the k-th request in document
\* order; a request's file is written before the file of any later sibling
\* and of any later sibling's descendants, and every file of a folder's
\* subtree is written before the file of anything after the folder.
C28_PreOrderDocumentOrder ==
  \A j \in LogIdx :
    IsTestWrite(fsLog[j]) =>
      /\ Last(fsLog[j].path) = FileName(WrittenItem(fsLog[j]))
      /\ \A i \in 1..(j - 1) :
           IsTestWrite(fsLog[i]) =>
             DocBefore(fsLog[i].content.pos, fsLog[j].content.pos)
      /\ \A p \in RequestPositions(rawCollection.item, <<>>, 1) :
           DocBefore(p, fsLog[j].content.pos) =>
             \E i \in 1..(j - 1) : TestWriteAt(i, p) /\ fsLog[i].ok

\* a folder with a request, then a sibling request with another name: the
\* folder's file is written first
C28_Witness ==
  /\ pc = "done"
  /\ \E i, j \in LogIdx :
       /\ i < j
       /\ TestWriteAt(i, <<1, 1>>) /\ TestWriteAt(j, <<2>>)
       /\ Last(fsLog[i].path) # Last(fsLog[j].path)

(***************************************************************************)
(* C30                                                                     *)
(***************************************************************************)
\* C30: script translation is idempotent: translating the translation of a
\* script again yields the same text.
C30_TranslationIdempotent ==
  (fnCall.fn = "convertPostmanTestToMocha" /\ fnRet.done) =>
    convertPostmanTestToMocha(fnRet.value) = fnRet.value

(***************************************************************************)
(* C27                                                                     *)
(***************************************************************************)
\* the folder segments above a tree position (a folder whose hyphenated
\* name is empty adds no segment)
RECURSIVE AncestorDirs(_, _)
AncestorDirs(items, pos) ==
  IF Len(pos) = 1 THEN <<>>
  ELSE (IF kebabCase(items[pos[1]].name) = <<>> THEN <<>>
        ELSE <<kebabCase(items[pos[1]].name)>>)
       \o AncestorDirs(items[pos[1]].items, Tail(pos))

\* the path of a test write relative to the root the walk writes under
RelativeToRoot(e) ==
  SubSeq(e.path, Len(WalkRoot(options)) + 1, Len(e.path))

Translation(item) == convertPostmanTestToMocha(ScriptText(item))

\* C27: the emission mode changes neither layout nor translation: in a
\* completed run of either mode the test files are the requests of the
\* collection, each at the path below the tests root that the collection
\* and the flatten option alone determine, a translated script is emitted
\* as the same text, and the testFiles and folders counts are those of the
\* collection; so plain and enhanced runs of the same collection and
\* flatten option agree on all of them.
C27_ModeKeepsLayoutAndTranslation ==
  (pc = "done" /\ result.returned) =>
    /\ {fsLog[i].content.pos : i \in {k \in LogIdx : TestWritten(k)}}
         = RequestPositions(rawCollection.item, <<>>, 1)
    /\ \A i \in LogIdx :
         TestWritten(i) =>
           /\ RelativeToRoot(fsLog[i]) =
                (IF options.maintainFolderStructure
                   THEN AncestorDirs(rawCollection.item, fsLog[i].content.pos)
                   ELSE <<>>)
                \o <<FileName(WrittenItem(fsLog[i]))>>
           /\ Translation(WrittenItem(fsLog[i])) # <<>> =>
                fsLog[i].content.code.assertions
                  = Translation(WrittenItem(fsLog[i]))
    /\ result.testFiles = CountRequests(rawCollection.item)
    /\ result.folders = CountNonEmptyGroups(rawCollection.item)

\* a completed enhanced run that kept the folders and wrote, inside a
\* folder, a request with a translated script
C27_Witness ==
  /\ pc = "done" /\ result.returned
  /\ options.generateFullProject /\ options.maintainFolderStructure
  /\ \E i \in LogIdx :
       /\ TestWritten(i)
       /\ Len(fsLog[i].content.pos) = 2
       /\ Translation(WrittenItem(fsLog[i])) # ScriptText(WrittenItem(fsLog[i]))
       /\ Translation(WrittenItem(fsLog[i])) # <<>>

(***************************************************************************)
(* C29                                                                     *)
(***************************************************************************)
CancelledBeforeConversion ==
  /\ proc.kind = "workflow" /\ proc.cancelled
  /\ proc.cancelledAt \in {"envPick", "envDialog", "outPick", "outDialog",
                           "envRead", "warning"}

CancelledDuringConversion ==
  /\ proc.kind = "workflow" /\ proc.cancelled
  /\ proc.cancelledAt = "converting"

\* C29: when cancellation is requested before the conversion step starts
\* (during a selection, the environment read or its warning),
\* processCollection is never invoked and no success notification is shown;
\* when it is requested while the conversion runs, the conversion is not
\* interrupted (the workflow ends only after processCollection has returned
\* or thrown) and the success notification is not shown.
C29_CancellationStopsOrSilences ==
  /\ CancelledBeforeConversion =>
       /\ ~proc.invoked /\ ~proc.notified
       /\ pc = "idle" /\ fsLog = <<>>
  /\ CancelledDuringConversion =>
       /\ ~proc.notified
       /\ proc.step \in {"converting", "returned", "threw"}
       /\ proc.step # "converting" => pc \in {"done", "failed"}
       /\ pc = "done" => result.returned

\* cancelled while the walk was writing: the conversion wrote the rest of
\* the files and returned, and the workflow ended without notification
C29_Witness ==
  /\ CancelledDuringConversion
  /\ proc.step = "returned" /\ ~proc.notified
  /\ pc = "done"
  /\ Len(fsLog) > proc.logAtCancel
  /\ proc.logAtCancel > 0

(***************************************************************************)
(* The specification of the direct calls                                   *)
(***************************************************************************)
InitCalls ==
  /\ Idle
  /\ fnCall \in BaseUrlCalls \cup EnvironmentCalls \cup ConvertCalls
                \cup UrlCalls
                \cup {Call("validateCollection", d)
                        : d \in {CollectionDoc(TRUE, Info(i, n, sc), h, f)
                                   : i, n, sc, h \in BOOLEAN,
                                     f \in {<<>>, <<Request(NameGet)>>}}
                                \cup {CollectionDoc(FALSE, InfoNone, FALSE,
                                                    <<>>)}}
  /\ fnRet = NoRet
  /\ proc = NoProc

NextCalls ==
  \/ ExtractBaseUrl
  \/ ExtractEnvironment
  \/ ConvertScript
  \/ ExtractUrl
  \/ ValidateCollection

SpecCalls == InitCalls /\ [][NextCalls]_vars

====
